---- MODULE Spec2Model ----
(* Model of knowledge-enrichment-demo.                                     *)
(* The text chunker (src/src/enrichment/services/chunking.py): a text is a *)
(* sequence of one-character strings; every invocation of chunk_text owns  *)
(* one frame of local variables (args, frame), and the actions are the     *)
(* steps of the function body.                                             *)
(* The orchestration around it: pd is the frame of one process_document    *)
(* call, srv the frame of one POST /api/pipeline/run, chat the chat        *)
(* endpoints of one app, emb the frame of one EmbeddingService.embed call. *)
(* A component that a specification does not run stays idle.               *)
EXTENDS Integers, Sequences, FiniteSets, TLC

VARIABLES args, frame, pd, srv, chat, emb

vars == <<args, frame, pd, srv, chat, emb>>

Idle == [pc |-> "idle"]

(* ------------------------------------------------------------------ *)
(* Bounds of the input space                                           *)
(* ------------------------------------------------------------------ *)
MaxAtoms == 5
MaxNegativeSize == 1
MaxChunkSize == 4
MaxOverlap == 2

(* ------------------------------------------------------------------ *)
(* Characters and strings                                              *)
(* ------------------------------------------------------------------ *)
NL == "\n"
SP == " "
SEP == "SEP"

separator == <<NL, NL>>

IsSpaceOnlyNewline(ch) == ch = NL

IsSpace(ch) == ch \in {SP, NL}

RECURSIVE LStrip(_)
LStrip(s) ==
    IF s = <<>> THEN <<>>
    ELSE IF IsSpace(Head(s)) THEN LStrip(Tail(s)) ELSE s

RECURSIVE RStrip(_)
RStrip(s) ==
    IF s = <<>> THEN <<>>
    ELSE IF IsSpace(s[Len(s)]) THEN RStrip(SubSeq(s, 1, Len(s) - 1)) ELSE s

Strip(s) == RStrip(LStrip(s))

Min(x, y) == IF x <= y THEN x ELSE y

Max(x, y) == IF x >= y THEN x ELSE y

(* Python slice s[start:stop] with the interpreter's index normalisation. *)
ClampIndex(n, k) == IF k < 0 THEN Max(k + n, 0) ELSE Min(k, n)

PySlice(s, start, stop) ==
    SubSeq(s, ClampIndex(Len(s), start) + 1, ClampIndex(Len(s), stop))

(* s[-k:] *)
PyTail(s, k) == IF k = 0 THEN s ELSE PySlice(s, -k, Len(s))

(* Index of the first occurrence of sep in s at or after from; 0 if none. *)
RECURSIVE Find(_, _, _)
Find(s, sep, from) ==
    IF from + Len(sep) - 1 > Len(s) THEN 0
    ELSE IF SubSeq(s, from, from + Len(sep) - 1) = sep THEN from
    ELSE Find(s, sep, from + 1)

(* str.split(sep) *)
RECURSIVE Split(_, _)
Split(s, sep) ==
    LET k == Find(s, sep, 1)
    IN  IF k = 0 THEN <<s>>
        ELSE <<SubSeq(s, 1, k - 1)>> \o Split(SubSeq(s, k + Len(sep), Len(s)), sep)

RECURSIVE StripAll(_)
StripAll(ps) ==
    IF ps = <<>> THEN <<>> ELSE <<Strip(Head(ps))>> \o StripAll(Tail(ps))

NonEmpty(p) == p # <<>>

(* [p.strip() for p in text.split(separator) if p.strip()] *)
Paragraphs(text) == SelectSeq(StripAll(Split(text, separator)), NonEmpty)

(* f"{n:04d}" *)
DigitChars == <<"0", "1", "2", "3", "4", "5", "6", "7", "8", "9">>

RECURSIVE Digits(_)
Digits(n) ==
    IF n < 10 THEN <<DigitChars[n + 1]>>
    ELSE Digits(n \div 10) \o <<DigitChars[(n % 10) + 1]>>

RECURSIVE ZeroPad(_, _)
ZeroPad(ds, width) == IF Len(ds) >= width THEN ds ELSE ZeroPad(<<"0">> \o ds, width)

Format04dNoPad(n) == Digits(n)

Format04d(n) == ZeroPad(Digits(n), 4)

(* f"{document_id}-{chunk_idx:04d}" *)
ChunkId(document_id, chunk_idx) == document_id \o <<"-">> \o Format04d(chunk_idx)

(* Chunk(id=..., content=content.strip(), document_id=..., chunk_index=...) *)
Chunk(document_id, chunk_idx, content) ==
    [id |-> ChunkId(document_id, chunk_idx),
     content |-> Strip(content),
     document_id |-> document_id,
     chunk_index |-> chunk_idx]

(* ------------------------------------------------------------------ *)
(* Inputs                                                              *)
(* ------------------------------------------------------------------ *)
Atoms == {"a", "b", SP, SEP}

RECURSIVE FromAtoms(_)
FromAtoms(s) ==
    IF s = <<>> THEN <<>>
    ELSE (IF Head(s) = SEP THEN separator ELSE <<Head(s)>>) \o FromAtoms(Tail(s))

Texts == {FromAtoms(s) : s \in UNION {[1..k -> Atoms] : k \in 0..MaxAtoms}}

DocIds == {<<"d", "1">>, <<"d", "2">>}

ChunkSizes == (0 - MaxNegativeSize)..MaxChunkSize

Overlaps == 0..MaxOverlap

ArgSets ==
    [text : Texts, document_id : DocIds,
     chunk_size : ChunkSizes, chunk_overlap : Overlaps]

PairTexts == {<<SP>>, <<"a", NL, NL, "b">>, <<"a", "b", SP, "a">>}

PairArgSets ==
    [text : PairTexts, document_id : DocIds,
     chunk_size : {2, 4}, chunk_overlap : {0, 1}]

(* ------------------------------------------------------------------ *)
(* The frame of one invocation and the steps of the function body      *)
(* ------------------------------------------------------------------ *)
NewFrame(a) ==
    [pc |-> "start",
     chunk_overlap |-> a.chunk_overlap,
     paragraphs |-> <<>>,
     chunks |-> <<>>,
     current |-> <<>>,
     chunk_idx |-> 0,
     para_idx |-> 0,
     i |-> 0,
     raised |-> FALSE,
     cur_paras |-> {},
     spans |-> <<>>]

Para(f) == f.paragraphs[f.para_idx]

(* chunks.append(Chunk(...)); chunk_idx += 1 *)
AppendChunkNoIncrement(a, f, content, span) ==
    [f EXCEPT !.chunks = Append(@, Chunk(a.document_id, f.chunk_idx, content)),
              !.spans = Append(@, span)]

AppendChunk(a, f, content, span) ==
    [f EXCEPT !.chunks = Append(@, Chunk(a.document_id, f.chunk_idx, content)),
              !.chunk_idx = @ + 1,
              !.spans = Append(@, span)]

AccSpan(f) == [kind |-> "acc", paras |-> f.cur_paras, para |-> 0, lo |-> 0, hi |-> 0]

WinSpan(f, lo, hi) == [kind |-> "win", paras |-> {}, para |-> f.para_idx, lo |-> lo, hi |-> hi]

(* line 33-34 *)
IsBlank(text) == Strip(text) = <<>>

ReturnEmptyStep(a, f) == [f EXCEPT !.pc = "done"]

(* line 37 *)
ClampOverlapNone(chunk_overlap, chunk_size) == chunk_overlap

ClampOverlap(chunk_overlap, chunk_size) == Min(chunk_overlap, chunk_size - 1)

(* lines 37-42 *)
SetupStep(a, f) ==
    [f EXCEPT !.pc = "for",
              !.chunk_overlap = ClampOverlap(a.chunk_overlap, a.chunk_size),
              !.paragraphs = Paragraphs(a.text),
              !.chunks = <<>>,
              !.current = <<>>,
              !.chunk_idx = 0,
              !.para_idx = 1]

(* line 46 *)
WouldExceedAtLimit(a, f) ==
    /\ f.current # <<>>
    /\ Len(f.current) + Len(Para(f)) + Len(separator) >= a.chunk_size

WouldExceed(a, f) ==
    /\ f.current # <<>>
    /\ Len(f.current) + Len(Para(f)) + Len(separator) > a.chunk_size

(* lines 57-60 *)
CarryOverlapAlways(f) ==
    IF f.chunk_overlap >= 0 /\ Len(f.current) > f.chunk_overlap
    THEN PyTail(f.current, f.chunk_overlap)
    ELSE <<>>

CarryOverlap(f) ==
    IF f.chunk_overlap > 0 /\ Len(f.current) > f.chunk_overlap
    THEN PyTail(f.current, f.chunk_overlap)
    ELSE <<>>

(* lines 46-60 *)
FinalizeIfFullStep(a, f) ==
    IF WouldExceed(a, f)
    THEN [AppendChunk(a, f, f.current, AccSpan(f))
            EXCEPT !.current = CarryOverlap(f), !.cur_paras = {}, !.pc = "fit"]
    ELSE [f EXCEPT !.pc = "fit"]

(* line 62 *)
Oversized(a, f) == Len(Para(f)) > a.chunk_size

(* the step of range(0, len(para), chunk_size - chunk_overlap), line 76 *)
WindowStepSum(a, f) == a.chunk_size + f.chunk_overlap

WindowStep(a, f) == a.chunk_size - f.chunk_overlap

RangeHas(i, stop, step) == IF step > 0 THEN i < stop ELSE i > stop

EnterWindowsStepKeepAccumulator(a, f) ==
    IF WindowStep(a, f) = 0
    THEN [f EXCEPT !.raised = TRUE, !.pc = "done"]
    ELSE IF RangeHas(0, Len(Para(f)), WindowStep(a, f))
    THEN [f EXCEPT !.i = 0, !.pc = "window"]
    ELSE [f EXCEPT !.para_idx = @ + 1, !.pc = "for"]

(* lines 62-76: flush the accumulator, then enter the window loop *)
EnterWindowsStep(a, f) ==
    LET g == IF f.current # <<>>
             THEN [AppendChunk(a, f, f.current, AccSpan(f))
                     EXCEPT !.current = <<>>, !.cur_paras = {}]
             ELSE f
    IN  IF WindowStep(a, f) = 0
        THEN [g EXCEPT !.raised = TRUE, !.pc = "done"]
        ELSE IF RangeHas(0, Len(Para(f)), WindowStep(a, f))
        THEN [g EXCEPT !.i = 0, !.pc = "window"]
        ELSE [g EXCEPT !.para_idx = @ + 1, !.pc = "for"]

(* lines 76-86: one iteration of the window loop *)
EmitWindowStep(a, f) ==
    LET segment == PySlice(Para(f), f.i, f.i + a.chunk_size)
        g == AppendChunk(a, f, segment,
                         WinSpan(f, ClampIndex(Len(Para(f)), f.i),
                                 ClampIndex(Len(Para(f)), f.i + a.chunk_size)))
        next == f.i + WindowStep(a, f)
    IN  IF RangeHas(next, Len(Para(f)), WindowStep(a, f))
        THEN [g EXCEPT !.i = next]
        ELSE [g EXCEPT !.i = next, !.para_idx = @ + 1, !.pc = "for"]

(* line 88 *)
AppendParagraphStep(a, f) ==
    [f EXCEPT !.current = IF f.current # <<>>
                          THEN f.current \o separator \o Para(f)
                          ELSE Para(f),
              !.cur_paras = @ \cup {f.para_idx},
              !.para_idx = @ + 1,
              !.pc = "for"]

(* lines 91-101 *)
FinalChunkStep(a, f) ==
    IF Strip(f.current) # <<>>
    THEN [AppendChunk(a, f, f.current, AccSpan(f)) EXCEPT !.pc = "done"]
    ELSE [f EXCEPT !.pc = "done"]

(* one step of the body, by position *)
StepFrame(a, f) ==
    CASE f.pc = "start" ->
            IF IsBlank(a.text) THEN ReturnEmptyStep(a, f) ELSE SetupStep(a, f)
      [] f.pc = "for" ->
            IF f.para_idx > Len(f.paragraphs)
            THEN FinalChunkStep(a, f) ELSE FinalizeIfFullStep(a, f)
      [] f.pc = "fit" ->
            IF Oversized(a, f) THEN EnterWindowsStep(a, f) ELSE AppendParagraphStep(a, f)
      [] f.pc = "window" -> EmitWindowStep(a, f)
      [] OTHER -> f

RECURSIVE RunFrame(_, _)
RunFrame(a, f) == IF f.pc = "done" THEN f ELSE RunFrame(a, StepFrame(a, f))

(* the value chunk_text returns for the arguments a, run on its own *)
chunk_text(a) == RunFrame(a, NewFrame(a)).chunks

(* ------------------------------------------------------------------ *)
(* Actions                                                             *)
(* ------------------------------------------------------------------ *)
StoreShared(c, f) ==
    [x \in DOMAIN frame |->
        IF x = c THEN f
        ELSE IF frame[x].pc \in {"for", "fit", "window"}
             THEN [frame[x] EXCEPT !.current = f.current, !.chunk_idx = f.chunk_idx]
             ELSE frame[x]]

(* the locals of invocation c are rebound; no other invocation sees them *)
Store(c, f) == [frame EXCEPT ![c] = f]

ReturnEmpty(c) ==
    /\ frame[c].pc = "start"
    /\ IsBlank(args[c].text)
    /\ frame' = Store(c, ReturnEmptyStep(args[c], frame[c]))
    /\ UNCHANGED <<args, pd, srv, chat, emb>>

Setup(c) ==
    /\ frame[c].pc = "start"
    /\ ~IsBlank(args[c].text)
    /\ frame' = Store(c, SetupStep(args[c], frame[c]))
    /\ UNCHANGED <<args, pd, srv, chat, emb>>

FinalizeIfFull(c) ==
    /\ frame[c].pc = "for"
    /\ frame[c].para_idx <= Len(frame[c].paragraphs)
    /\ frame' = Store(c, FinalizeIfFullStep(args[c], frame[c]))
    /\ UNCHANGED <<args, pd, srv, chat, emb>>

EnterWindows(c) ==
    /\ frame[c].pc = "fit"
    /\ Oversized(args[c], frame[c])
    /\ frame' = Store(c, EnterWindowsStep(args[c], frame[c]))
    /\ UNCHANGED <<args, pd, srv, chat, emb>>

EmitWindow(c) ==
    /\ frame[c].pc = "window"
    /\ frame' = Store(c, EmitWindowStep(args[c], frame[c]))
    /\ UNCHANGED <<args, pd, srv, chat, emb>>

AppendParagraph(c) ==
    /\ frame[c].pc = "fit"
    /\ ~Oversized(args[c], frame[c])
    /\ frame' = Store(c, AppendParagraphStep(args[c], frame[c]))
    /\ UNCHANGED <<args, pd, srv, chat, emb>>

FinalChunk(c) ==
    /\ frame[c].pc = "for"
    /\ frame[c].para_idx > Len(frame[c].paragraphs)
    /\ frame' = Store(c, FinalChunkStep(args[c], frame[c]))
    /\ UNCHANGED <<args, pd, srv, chat, emb>>

OthersIdle == pd = Idle /\ srv = Idle /\ chat = Idle /\ emb = Idle

Init ==
    /\ args \in [{1} -> ArgSets]
    /\ frame = [c \in {1} |-> NewFrame(args[c])]
    /\ OthersIdle

InitPair ==
    /\ args \in [{1, 2} -> PairArgSets]
    /\ frame = [c \in {1, 2} |-> NewFrame(args[c])]
    /\ OthersIdle

Next ==
    \/ \E c \in DOMAIN frame : ReturnEmpty(c)
    \/ \E c \in DOMAIN frame : Setup(c)
    \/ \E c \in DOMAIN frame : FinalizeIfFull(c)
    \/ \E c \in DOMAIN frame : EnterWindows(c)
    \/ \E c \in DOMAIN frame : EmitWindow(c)
    \/ \E c \in DOMAIN frame : AppendParagraph(c)
    \/ \E c \in DOMAIN frame : FinalChunk(c)

Spec == Init /\ [][Next]_vars

PairSpec == InitPair /\ [][Next]_vars

(* the calls the overlap clamp is for: chunk_overlap >= chunk_size >= 1.  *)
(* A call, once started, is run to its return by the interpreter.         *)
InitClamp ==
    /\ Init
    /\ \A c \in DOMAIN args :
          args[c].chunk_size >= 1 /\ args[c].chunk_overlap >= args[c].chunk_size

ClampSpec == InitClamp /\ [][Next]_vars /\ WF_vars(Next)

(* ------------------------------------------------------------------ *)
(* Vocabulary of the properties                                        *)
(* ------------------------------------------------------------------ *)
Calls == DOMAIN frame

Done(c) == frame[c].pc = "done"

Returned(c) == Done(c) /\ ~frame[c].raised

HasVisibleChar(text) == \E n \in 1..Len(text) : text[n] \notin {SP, NL}

RECURSIVE Join(_)
Join(ps) ==
    IF ps = <<>> THEN <<>>
    ELSE IF Len(ps) = 1 THEN ps[1]
    ELSE ps[1] \o separator \o Join(Tail(ps))

IsSubstr(p, s) ==
    \E n \in 0..(Len(s) - Len(p)) : SubSeq(s, n + 1, n + Len(p)) = p

DigitValue(ch) == CHOOSE d \in 0..9 : DigitChars[d + 1] = ch

RECURSIVE DecimalValue(_)
DecimalValue(ds) ==
    IF ds = <<>> THEN 0
    ELSE 10 * DecimalValue(SubSeq(ds, 1, Len(ds) - 1)) + DigitValue(ds[Len(ds)])

ChunkIxs(c) == 1..Len(frame[c].chunks)

ParaIxs(c) == 1..Len(frame[c].paragraphs)

IsWindowOf(c, k, p) == frame[c].spans[k].kind = "win" /\ frame[c].spans[k].para = p

IsHolderOf(c, k, p) == frame[c].spans[k].kind = "acc" /\ p \in frame[c].spans[k].paras

ChunksOf(c, p) == {k \in ChunkIxs(c) : IsWindowOf(c, k, p) \/ IsHolderOf(c, k, p)}

WindowText(c, k) ==
    SubSeq(frame[c].paragraphs[frame[c].spans[k].para],
           frame[c].spans[k].lo + 1, frame[c].spans[k].hi)

(* ------------------------------------------------------------------ *)
(* C1: for non-blank text and chunk_size > chunk_overlap >= 0, every   *)
(* chunk that chunk_text has produced has at most chunk_size           *)
(* characters of content.                                              *)
(* ------------------------------------------------------------------ *)
C1_ChunksWithinSize ==
    \A c \in Calls :
        (/\ HasVisibleChar(args[c].text)
         /\ args[c].chunk_size > args[c].chunk_overlap
         /\ args[c].chunk_overlap >= 0)
        => \A k \in ChunkIxs(c) : Len(frame[c].chunks[k].content) <= args[c].chunk_size

(* ------------------------------------------------------------------ *)
(* C2: for chunk_size >= 1 and chunk_overlap >= 0, no chunk has empty  *)
(* trimmed content.                                                    *)
(* ------------------------------------------------------------------ *)
C2_NoEmptyChunk ==
    \A c \in Calls :
        (args[c].chunk_size >= 1 /\ args[c].chunk_overlap >= 0)
        => \A k \in ChunkIxs(c) : frame[c].chunks[k].content # <<>>

(* ------------------------------------------------------------------ *)
(* C3: with chunk_size <= 0 and non-blank text the call ends with a    *)
(* configuration error before any paragraph is iterated, and no chunk  *)
(* is produced.                                                        *)
(* ------------------------------------------------------------------ *)
C3_NonPositiveSizeFailsFast ==
    \A c \in Calls :
        (/\ args[c].chunk_size <= 0
         /\ HasVisibleChar(args[c].text)
         /\ frame[c].pc # "start")
        => /\ frame[c].pc = "done"
           /\ frame[c].raised
           /\ frame[c].chunks = <<>>

(* ------------------------------------------------------------------ *)
(* C4: the k-th chunk (k = 0..N-1) has chunk_index k, the document_id  *)
(* of the call, and id = document_id, "-", k as four decimal digits.   *)
(* ------------------------------------------------------------------ *)
C4_SequentialIds ==
    \A c \in Calls : \A k \in ChunkIxs(c) :
        LET ch == frame[c].chunks[k]
            doc == args[c].document_id
            suffix == SubSeq(ch.id, Len(doc) + 2, Len(ch.id))
        IN  /\ ch.chunk_index = k - 1
            /\ ch.document_id = doc
            /\ SubSeq(ch.id, 1, Len(doc)) = doc
            /\ Len(ch.id) = Len(doc) + 5
            /\ ch.id[Len(doc) + 1] = "-"
            /\ \A n \in 1..Len(suffix) : \E d \in 1..10 : DigitChars[d] = suffix[n]
            /\ DecimalValue(suffix) = k - 1

C4_Witness ==
    \E c \in Calls :
        /\ Returned(c)
        /\ Len(frame[c].chunks) >= 3
        /\ \E k \in ChunkIxs(c) : frame[c].spans[k].kind = "acc"
        /\ \E k \in ChunkIxs(c) : frame[c].spans[k].kind = "win"

(* ------------------------------------------------------------------ *)
(* C5: (chunk_size >= 1, chunk_overlap >= 0) when the call has         *)
(* returned, every paragraph no longer than chunk_size is whole inside *)
(* the chunk it was accumulated into, every character position of a    *)
(* longer paragraph lies in a window whose trimmed text is a chunk,    *)
(* and the chunks of an earlier paragraph never come after those of a  *)
(* later one.                                                          *)
(* ------------------------------------------------------------------ *)
C5_Coverage ==
    \A c \in Calls :
        (Returned(c) /\ args[c].chunk_size >= 1 /\ args[c].chunk_overlap >= 0)
        => /\ frame[c].paragraphs = Paragraphs(args[c].text)
           /\ \A p \in ParaIxs(c) :
                LET para == frame[c].paragraphs[p]
                IN  IF Len(para) <= args[c].chunk_size
                    THEN \E k \in ChunkIxs(c) :
                            /\ IsHolderOf(c, k, p)
                            /\ IsSubstr(para, frame[c].chunks[k].content)
                    ELSE \A q \in 1..Len(para) : \E k \in ChunkIxs(c) :
                            /\ IsWindowOf(c, k, p)
                            /\ frame[c].spans[k].lo < q
                            /\ q <= frame[c].spans[k].hi
                            /\ frame[c].chunks[k].content = Strip(WindowText(c, k))
           /\ \A p1, p2 \in ParaIxs(c) :
                p1 < p2 => \A k1 \in ChunksOf(c, p1), k2 \in ChunksOf(c, p2) : k1 <= k2
           /\ \A k1, k2 \in ChunkIxs(c) :
                (/\ k1 < k2
                 /\ frame[c].spans[k1].kind = "win"
                 /\ IsWindowOf(c, k2, frame[c].spans[k1].para))
                => frame[c].spans[k1].lo < frame[c].spans[k2].lo

C5_Witness ==
    \E c \in Calls :
        /\ Returned(c)
        /\ args[c].chunk_size >= 1
        /\ args[c].chunk_overlap >= 1
        /\ \E p1, p2 \in ParaIxs(c) :
              /\ p1 < p2
              /\ Len(frame[c].paragraphs[p1]) <= args[c].chunk_size
              /\ Len(frame[c].paragraphs[p2]) > args[c].chunk_size
        /\ Len(frame[c].chunks) >= 3

(* ------------------------------------------------------------------ *)
(* C6: with chunk_overlap = 0 (and chunk_size >= 1) the returned       *)
(* chunks partition the paragraphs: an accumulated chunk is exactly a  *)
(* run of consecutive whole paragraphs joined by the separator, every  *)
(* paragraph no longer than chunk_size is in exactly one chunk, and    *)
(* every character position of a longer paragraph is in exactly one    *)
(* window, the windows being consecutive slices.                       *)
(* ------------------------------------------------------------------ *)
C6_DisjointWithoutOverlap ==
    \A c \in Calls :
        (Returned(c) /\ args[c].chunk_size >= 1 /\ args[c].chunk_overlap = 0)
        => /\ \A k \in ChunkIxs(c) :
                LET sp == frame[c].spans[k]
                IN  IF sp.kind = "acc"
                    THEN /\ sp.paras # {}
                         /\ \E lo, hi \in ParaIxs(c) :
                               /\ sp.paras = lo..hi
                               /\ frame[c].chunks[k].content
                                    = Join(SubSeq(frame[c].paragraphs, lo, hi))
                    ELSE /\ frame[c].chunks[k].content = Strip(WindowText(c, k))
                         /\ sp.hi - sp.lo <= args[c].chunk_size
           /\ \A p \in ParaIxs(c) :
                LET para == frame[c].paragraphs[p]
                IN  IF Len(para) <= args[c].chunk_size
                    THEN Cardinality({k \in ChunkIxs(c) : IsHolderOf(c, k, p)}) = 1
                    ELSE \A q \in 1..Len(para) :
                            Cardinality({k \in ChunkIxs(c) :
                                            /\ IsWindowOf(c, k, p)
                                            /\ frame[c].spans[k].lo < q
                                            /\ q <= frame[c].spans[k].hi}) = 1
           /\ \A k \in ChunkIxs(c) :
                (k > 1 /\ frame[c].spans[k].kind = "win"
                       /\ IsWindowOf(c, k - 1, frame[c].spans[k].para))
                => frame[c].spans[k].lo = frame[c].spans[k - 1].hi

C6_Witness ==
    \E c \in Calls :
        /\ Returned(c)
        /\ args[c].chunk_size >= 2
        /\ args[c].chunk_overlap = 0
        /\ Len(frame[c].paragraphs) >= 2
        /\ \E k \in ChunkIxs(c) : frame[c].spans[k].kind = "acc"
        /\ \E k \in ChunkIxs(c) :
              /\ k > 1
              /\ frame[c].spans[k].kind = "win"
              /\ IsWindowOf(c, k - 1, frame[c].spans[k].para)

(* ------------------------------------------------------------------ *)
(* C7: for chunk_size >= 1 and chunk_overlap >= chunk_size the call    *)
(* works with the overlap chunk_size - 1: the window step is >= 1,     *)
(* every window starts strictly later than the one before, no error is *)
(* raised, the result is the one for chunk_overlap = chunk_size - 1,   *)
(* and the call reaches its return.                                    *)
(* ------------------------------------------------------------------ *)
OverClamped(c) ==
    args[c].chunk_size >= 1 /\ args[c].chunk_overlap >= args[c].chunk_size

C7_ClampState ==
    \A c \in Calls :
        OverClamped(c)
        => /\ ~frame[c].raised
           /\ (frame[c].pc # "start" /\ HasVisibleChar(args[c].text))
                => /\ frame[c].chunk_overlap = args[c].chunk_size - 1
                   /\ args[c].chunk_size - frame[c].chunk_overlap >= 1
           /\ Done(c)
                => frame[c].chunks
                     = chunk_text([args[c] EXCEPT !.chunk_overlap = args[c].chunk_size - 1])

C7_WindowProgress ==
    \A c \in Calls :
        (OverClamped(c) /\ frame[c].pc = "window" /\ frame'[c] # frame[c])
        => /\ Len(frame'[c].chunks) = Len(frame[c].chunks) + 1
           /\ frame'[c].i > frame[c].i
           /\ frame'[c].pc = "window" => frame'[c].i < Len(Para(frame[c]))

C7_OverlapClamp ==
    /\ []C7_ClampState
    /\ [][C7_WindowProgress]_vars
    /\ \A c \in {1} : (c \in Calls /\ OverClamped(c)) ~> Done(c)

C7_Witness ==
    \E c \in Calls :
        /\ Returned(c)
        /\ OverClamped(c)
        /\ args[c].chunk_size >= 2
        /\ Cardinality({k \in ChunkIxs(c) : frame[c].spans[k].kind = "win"}) >= 2

(* ------------------------------------------------------------------ *)
(* C8: when the text has no character other than whitespace (empty,    *)
(* blanks, separators), the call returns the empty sequence and raises *)
(* nothing, whatever document_id, chunk_size and chunk_overlap are.    *)
(* ------------------------------------------------------------------ *)
C8_BlankGivesEmpty ==
    \A c \in Calls :
        ~HasVisibleChar(args[c].text)
        => /\ ~frame[c].raised
           /\ frame[c].chunks = <<>>

C8_Witness ==
    \E c \in Calls :
        /\ Returned(c)
        /\ ~HasVisibleChar(args[c].text)
        /\ IsSubstr(separator, args[c].text)
        /\ IsSubstr(<<SP>>, args[c].text)
        /\ args[c].chunk_size <= 0

(* ------------------------------------------------------------------ *)
(* C9: when the text has a paragraph and its paragraphs joined by the  *)
(* separator are no longer than chunk_size, the call returns exactly   *)
(* one chunk, with index 0 and the joined paragraphs as content.       *)
(* ------------------------------------------------------------------ *)
C9_FitsInOneChunk ==
    \A c \in Calls :
        LET ps == Paragraphs(args[c].text)
        IN  (Done(c) /\ ps # <<>> /\ Len(Join(ps)) <= args[c].chunk_size)
            => /\ ~frame[c].raised
               /\ Len(frame[c].chunks) = 1
               /\ frame[c].chunks[1].chunk_index = 0
               /\ frame[c].chunks[1].content = Join(ps)

C9_Witness ==
    \E c \in Calls :
        /\ Returned(c)
        /\ Len(frame[c].paragraphs) >= 2
        /\ Len(Join(frame[c].paragraphs)) = args[c].chunk_size
        /\ args[c].chunk_overlap >= 1

(* ------------------------------------------------------------------ *)
(* C10: an invocation that has returned has the chunks that the same   *)
(* arguments give when run alone, however its steps were interleaved   *)
(* with another invocation; so two invocations with identical          *)
(* arguments return identical sequences.                               *)
(* ------------------------------------------------------------------ *)
C10_PureUnderInterleaving ==
    /\ \A c \in Calls : Done(c) => frame[c].chunks = chunk_text(args[c])
    /\ \A c1, c2 \in Calls :
          (Done(c1) /\ Done(c2) /\ args[c1] = args[c2])
          => frame[c1].chunks = frame[c2].chunks

C10_Witness ==
    /\ Cardinality(Calls) = 2
    /\ \A c \in Calls : Returned(c) /\ Len(frame[c].chunks) >= 2
    /\ \E c1, c2 \in Calls :
          /\ c1 # c2
          /\ args[c1].document_id # args[c2].document_id
          /\ args[c1].text # args[c2].text

(* ================================================================== *)
(* process_document (src/src/ifwebuildit/pipeline/baseline.py and      *)
(* enhanced.py).  The collaborators (extraction, embedding, indexing)  *)
(* are the environment: each call returns one of its possible results  *)
(* or raises.  calls is the sequence of collaborator and chunker calls *)
(* the invocation has made, uploads the batches handed to the index.   *)
(* ================================================================== *)
MaxContents == 2

DefaultChunkSize == 1000

DefaultChunkOverlap == 200

EmptyDict == [k \in {} |-> ""]

Variants == {"baseline", "enhanced"}

(* dict.get(key, default) *)
Get(d, key, default) == IF key \in DOMAIN d THEN d[key] ELSE default

(* the analysis result as result_to_dict returns it *)
Markdowns == {<<>>, <<SP>>, <<"a", "b">>, <<"a", SP, "b", "b">>}

FieldSets ==
    {EmptyDict,
     [reportTitle |-> [value |-> "T1"], reportNumber |-> [value |-> "N1"],
      agencies |-> [value |-> <<"DoD">>]],
     [reportTitle |-> [value |-> "T2"], topicCategory |-> [value |-> "Health"],
      executiveSummary |-> [value |-> "S2"]]}

ContentLists ==
    UNION {[1..n -> [markdown : Markdowns, fields : FieldSets]] : n \in 0..MaxContents}

ExtractOutcomes ==
    {[raises |-> TRUE, contents |-> <<>>]}
        \cup {[raises |-> FALSE, contents |-> cs] : cs \in ContentLists}

RECURSIVE JoinWith(_, _)
JoinWith(ps, sep) ==
    IF ps = <<>> THEN <<>>
    ELSE IF Len(ps) = 1 THEN ps[1]
    ELSE ps[1] \o sep \o JoinWith(Tail(ps), sep)

(* "\n\n".join(p for p in text_parts if p) *)
TextOf(contents) ==
    JoinWith(SelectSeq([k \in 1..Len(contents) |-> contents[k].markdown], NonEmpty),
             <<NL, NL>>)

(* _extract_fields: later contents overwrite the fields of earlier ones *)
RECURSIVE ExtractFields(_)
ExtractFields(contents) ==
    IF contents = <<>> THEN EmptyDict
    ELSE LET before == ExtractFields(SubSeq(contents, 1, Len(contents) - 1))
             fs == contents[Len(contents)].fields
         IN  [k \in DOMAIN before \cup DOMAIN fs |->
                IF k \in DOMAIN fs THEN fs[k].value ELSE before[k]]

NewCall(variant, document_id, chunk_size, chunk_overlap) ==
    [pc |-> "extract",
     variant |-> variant,
     document_id |-> document_id,
     chunk_size |-> chunk_size,
     chunk_overlap |-> chunk_overlap,
     extracted |-> FALSE,
     contents |-> <<>>,
     text |-> <<>>,
     metadata |-> EmptyDict,
     chunks |-> <<>>,
     embeddings |-> <<>>,
     results |-> <<>>,
     summary |-> EmptyDict,
     exc |-> "",
     calls |-> <<>>,
     uploads |-> <<>>]

Called(p, op, input) == [p EXCEPT !.calls = Append(@, [op |-> op, input |-> input])]

(* if not text.strip() *)
NoTextExtractedOnlyEmpty(text) == text = <<>>

NoTextExtracted(text) == Strip(text) = <<>>

(* the return value on the empty-text path *)
EmptySummary(p, metadata) ==
    IF p.variant = "baseline"
    THEN [document_id |-> p.document_id, chunks |-> 0, indexed |-> 0]
    ELSE [document_id |-> p.document_id, chunks |-> 0, indexed |-> 0,
          metadata |-> metadata]

(* sum(1 for r in results if r["succeeded"]) *)
CountAll(results) == Len(results)

CountSucceeded(results) == Cardinality({k \in 1..Len(results) : results[k].succeeded})

(* the return value on the normal path *)
FullSummary(p, indexed) ==
    IF p.variant = "baseline"
    THEN [document_id |-> p.document_id, chunks |-> Len(p.chunks),
          indexed |-> indexed, text_length |-> Len(p.text)]
    ELSE [document_id |-> p.document_id, chunks |-> Len(p.chunks),
          indexed |-> indexed, text_length |-> Len(p.text),
          metadata |-> p.metadata]

(* step 1: analyze_document, result_to_dict, text, metadata, empty return *)
ExtractStep(p, o) ==
    LET q == Called(p, "extract", p.document_id)
        text == TextOf(o.contents)
        metadata == IF p.variant = "enhanced" THEN ExtractFields(o.contents)
                    ELSE EmptyDict
    IN  IF o.raises THEN [q EXCEPT !.pc = "raised", !.exc = "analysis failed"]
        ELSE IF NoTextExtracted(text)
        THEN [q EXCEPT !.pc = "returned", !.extracted = TRUE, !.text = text,
                       !.contents = o.contents,
                       !.metadata = metadata,
                       !.summary = EmptySummary(p, metadata)]
        ELSE [q EXCEPT !.pc = "chunk", !.extracted = TRUE, !.text = text,
                       !.contents = o.contents,
                       !.metadata = metadata]

ChunkArgs(p) ==
    [text |-> p.text, document_id |-> p.document_id,
     chunk_size |-> p.chunk_size, chunk_overlap |-> p.chunk_overlap]

(* step 2: chunk_text *)
ChunkStep(p) ==
    [Called(p, "chunk", p.text) EXCEPT !.pc = "embed", !.chunks = chunk_text(ChunkArgs(p))]

(* texts = [c.content for c in chunks] *)
ContentsOf(chunks) == [k \in 1..Len(chunks) |-> chunks[k].content]

Vec(text) == <<"vec", text>>

EmbedOutcomes == {"ok", "short", "long", "raises"}

(* what the embedding collaborator hands back: one vector per text, one *)
(* too few or one too many                                               *)
EmbedResult(texts, o) ==
    LET all == [k \in 1..Len(texts) |-> Vec(texts[k])]
    IN  IF o = "short" THEN SubSeq(all, 1, Len(all) - 1)
        ELSE IF o = "long" THEN Append(all, Vec(<<>>))
        ELSE all

OnEmbedRaiseRetry(p) == [p EXCEPT !.pc = "embed"]

OnEmbedRaise(p) == [p EXCEPT !.pc = "raised", !.exc = "embedding failed"]

(* step 3: embedding.embed(texts) *)
EmbedStep(p, o) ==
    LET q == Called(p, "embed", ContentsOf(p.chunks))
    IN  IF o = "raises" THEN OnEmbedRaise(q)
        ELSE [q EXCEPT !.pc = "index",
                       !.embeddings = EmbedResult(ContentsOf(p.chunks), o)]

IndexRecordBlankMetadata(p, k) ==
    LET base == [id |-> p.chunks[k].id,
                 content |-> p.chunks[k].content,
                 document_id |-> p.chunks[k].document_id,
                 chunk_index |-> p.chunks[k].chunk_index,
                 content_vector |-> p.embeddings[k]]
    IN  IF p.variant = "baseline" THEN base
        ELSE [id |-> base.id, content |-> base.content,
              document_id |-> base.document_id, chunk_index |-> base.chunk_index,
              content_vector |-> base.content_vector,
              report_title |-> "", report_number |-> "", topic_category |-> "",
              executive_summary |-> "", section_title |-> "", agencies |-> <<>>]

(* the record index_chunks / index_enhanced_chunks builds for chunk k *)
IndexRecord(p, k) ==
    LET base == [id |-> p.chunks[k].id,
                 content |-> p.chunks[k].content,
                 document_id |-> p.chunks[k].document_id,
                 chunk_index |-> p.chunks[k].chunk_index,
                 content_vector |-> p.embeddings[k]]
    IN  IF p.variant = "baseline" THEN base
        ELSE [id |-> base.id, content |-> base.content,
              document_id |-> base.document_id, chunk_index |-> base.chunk_index,
              content_vector |-> base.content_vector,
              report_title |-> Get(p.metadata, "reportTitle", ""),
              report_number |-> Get(p.metadata, "reportNumber", ""),
              topic_category |-> Get(p.metadata, "topicCategory", ""),
              executive_summary |-> Get(p.metadata, "executiveSummary", ""),
              section_title |-> "",
              agencies |-> Get(p.metadata, "agencies", <<>>)]

(* per-record outcomes of one upload: all succeed, all fail, or one fails *)
FlagSets(n) ==
    {[k \in 1..n |-> k \notin F] : F \in {{}, 1..n} \cup {{j} : j \in 1..n}}

IndexOutcomes(p) ==
    {[raises |-> TRUE, flags |-> <<>>]}
        \cup {[raises |-> FALSE, flags |-> fl] : fl \in FlagSets(Len(p.chunks))}

ZipMismatchIgnored(chunks, embeddings) == FALSE

(* zip(chunks, embeddings, strict=True) raises ValueError *)
ZipMismatch(chunks, embeddings) == Len(chunks) # Len(embeddings)

(* step 4: index_chunks (zip strict, upload_documents), indexed, return *)
IndexStep(p, o) ==
    LET q == Called(p, "index", [chunks |-> p.chunks, embeddings |-> p.embeddings])
        documents == [k \in 1..Min(Len(p.chunks), Len(p.embeddings)) |-> IndexRecord(p, k)]
        results == [k \in 1..Len(documents) |->
                      [key |-> documents[k].id, succeeded |-> o.flags[k]]]
    IN  IF ZipMismatch(p.chunks, p.embeddings)
        THEN [q EXCEPT !.pc = "raised", !.exc = "zip() arguments differ in length"]
        ELSE IF o.raises
        THEN [q EXCEPT !.pc = "raised", !.exc = "upload failed",
                       !.uploads = Append(@, documents)]
        ELSE [q EXCEPT !.pc = "returned",
                       !.uploads = Append(@, documents),
                       !.results = results,
                       !.summary = FullSummary(p, CountSucceeded(results))]

(* what the corpus documents of a pipeline run can yield *)
CorpusContentLists ==
    {<<>>,
     <<[markdown |-> <<SP>>, fields |-> EmptyDict]>>,
     <<[markdown |-> <<"a", SP, "b", "b">>, fields |-> EmptyDict]>>,
     <<[markdown |-> <<"a", "b">>,
        fields |-> [reportTitle |-> [value |-> "T1"],
                    reportNumber |-> [value |-> "N1"],
                    agencies |-> [value |-> <<"DoD">>]]]>>}

CorpusExtractOutcomes ==
    {[raises |-> TRUE, contents |-> <<>>]}
        \cup {[raises |-> FALSE, contents |-> cs] : cs \in CorpusContentLists}

PdExtract ==
    /\ pd.pc = "extract"
    /\ \E o \in (IF srv = Idle THEN ExtractOutcomes ELSE CorpusExtractOutcomes) :
          pd' = ExtractStep(pd, o)
    /\ UNCHANGED <<args, frame, srv, chat, emb>>

PdChunk ==
    /\ pd.pc = "chunk"
    /\ pd' = ChunkStep(pd)
    /\ UNCHANGED <<args, frame, srv, chat, emb>>

PdEmbed ==
    /\ pd.pc = "embed"
    /\ \E o \in EmbedOutcomes : pd' = EmbedStep(pd, o)
    /\ UNCHANGED <<args, frame, srv, chat, emb>>

PdIndex ==
    /\ pd.pc = "index"
    /\ \E o \in IndexOutcomes(pd) : pd' = IndexStep(pd, o)
    /\ UNCHANGED <<args, frame, srv, chat, emb>>

(* process_document called on its own, as the pipeline tests call it *)
DocChunkSizes == {2, 3, DefaultChunkSize}

DocOverlaps == {0, DefaultChunkOverlap}

InitDoc ==
    /\ pd \in {NewCall(v, d, cs, co) :
                 v \in Variants, d \in DocIds, cs \in DocChunkSizes, co \in DocOverlaps}
    /\ args = <<>>
    /\ frame = <<>>
    /\ srv = Idle
    /\ chat = Idle
    /\ emb = Idle

NextDoc ==
    \/ PdExtract
    \/ PdChunk
    \/ PdEmbed
    \/ PdIndex

DocSpec == InitDoc /\ [][NextDoc]_vars

PdActive == pd.pc # "idle"

OpsOf(p) == [k \in 1..Len(p.calls) |-> p.calls[k].op]

CallsOf(p, op) == {k \in 1..Len(p.calls) : p.calls[k].op = op}

(* ------------------------------------------------------------------ *)
(* C11: in both variants, once extraction has returned a text that is  *)
(* empty after trimming, the call has returned chunks = 0 and          *)
(* indexed = 0 and has called neither embedding nor indexing.          *)
(* ------------------------------------------------------------------ *)
C11_EmptyTextShortCircuit ==
    (PdActive /\ pd.extracted /\ ~HasVisibleChar(pd.text))
    => /\ pd.pc = "returned"
       /\ pd.summary.chunks = 0
       /\ pd.summary.indexed = 0
       /\ pd.summary.document_id = pd.document_id
       /\ CallsOf(pd, "embed") = {}
       /\ CallsOf(pd, "index") = {}
       /\ pd.uploads = <<>>

C11_Witness ==
    /\ PdActive
    /\ pd.pc = "returned"
    /\ pd.variant = "enhanced"
    /\ pd.extracted
    /\ pd.text # <<>>
    /\ ~HasVisibleChar(pd.text)

(* ------------------------------------------------------------------ *)
(* C12: for non-blank extracted text a returned call reports           *)
(* chunks = the number of chunks chunk_text gives for the text and     *)
(* indexed = the number of index results that succeeded; with one      *)
(* vector per chunk and every record succeeded, indexed = chunks.      *)
(* ------------------------------------------------------------------ *)
C12_SummaryCounts ==
    (PdActive /\ pd.pc = "returned" /\ HasVisibleChar(pd.text))
    => /\ pd.summary.chunks = Len(chunk_text(ChunkArgs(pd)))
       /\ \E ok \in SUBSET (1..Len(pd.results)) :
             /\ \A k \in 1..Len(pd.results) : k \in ok <=> pd.results[k].succeeded
             /\ pd.summary.indexed = Cardinality(ok)
       /\ (/\ Len(pd.embeddings) = Len(pd.chunks)
           /\ \A k \in 1..Len(pd.results) : pd.results[k].succeeded)
          => pd.summary.indexed = pd.summary.chunks

C12_Witness ==
    /\ PdActive
    /\ pd.pc = "returned"
    /\ HasVisibleChar(pd.text)
    /\ pd.summary.chunks >= 2
    /\ pd.summary.indexed = pd.summary.chunks

(* ------------------------------------------------------------------ *)
(* C13: the calls of one process_document are a prefix of extract,     *)
(* chunk, embed, index (so each happens at most once and in that       *)
(* order); embedding receives the contents of the chunks chunking      *)
(* produced, indexing the vectors embedding returned.                  *)
(* ------------------------------------------------------------------ *)
StepOrder == <<"extract", "chunk", "embed", "index">>

C13_StepOrder ==
    PdActive
    => /\ Len(pd.calls) <= 4
       /\ OpsOf(pd) = SubSeq(StepOrder, 1, Len(pd.calls))
       /\ \A k \in CallsOf(pd, "embed") :
             /\ pd.calls[k].input = ContentsOf(chunk_text(ChunkArgs(pd)))
             /\ pd.extracted
       /\ \A k \in CallsOf(pd, "index") :
             /\ pd.calls[k].input.chunks = chunk_text(ChunkArgs(pd))
             /\ pd.calls[k].input.embeddings = pd.embeddings
             /\ CallsOf(pd, "embed") # {}

C13_Witness ==
    /\ PdActive
    /\ pd.pc = "returned"
    /\ Len(pd.calls) = 4
    /\ Len(pd.chunks) >= 2

(***************************************************************************)
(* run_pipeline, the handler of POST /api/pipeline/run                     *)
(* (src/src/enrichment/server.py).  srv is the frame of one request: the   *)
(* settings it reads, its locals, the response it returns, and as history  *)
(* the calls it made (events), the return values of process_document that  *)
(* it discards (summaries) and every batch written to the index (index).   *)
(***************************************************************************)
MaxDocs == 2

Filenames == {<<"d", "1", ".", "p", "d", "f">>,
              <<"d", "2", ".", "p", "d", "f">>,
              <<"d", "3">>}

(* the position of the last "." of a name, 0 when there is none *)
RECURSIVE LastDot(_, _)
LastDot(name, i) ==
    IF i = 0 THEN 0
    ELSE IF name[i] = "." THEN i
    ELSE LastDot(name, i - 1)

(* Path(fname).stem for a name without directories *)
Stem(name) ==
    LET i == LastDot(name, Len(name))
    IN  IF i <= 1 \/ i = Len(name) THEN name ELSE SubSeq(name, 1, i - 1)

RECURSIVE Distinct(_)
Distinct(q) ==
    IF q = <<>> THEN TRUE
    ELSE /\ \A k \in 2..Len(q) : q[k] # q[1]
         /\ Distinct(Tail(q))

RECURSIVE SeqsUpTo(_, _)
SeqsUpTo(S, n) ==
    IF n = 0 THEN {<<>>}
    ELSE LET shorter == SeqsUpTo(S, n - 1)
         IN  shorter \cup {Append(q, x) : q \in {r \in shorter : Len(r) = n - 1}, x \in S}

(* what storage.list_documents() can return: blob names are unique *)
Corpora == {q \in SeqsUpTo(Filenames, MaxDocs) : Distinct(q)}

SettingsSets == [contentunderstanding_endpoint : BOOLEAN,
                 search_endpoint : BOOLEAN,
                 azure_openai_endpoint : BOOLEAN]

NotConfiguredMessage ==
    <<"Pipeline services not configured. Set CONTENTUNDERSTANDING_ENDPOINT and SEARCH_ENDPOINT.">>

OpenAINotConfiguredMessage ==
    <<"Azure OpenAI not configured. Set AZURE_OPENAI_ENDPOINT.">>

NoDocumentsMessage == <<"No documents in corpus. Upload documents first.">>

PipelineErrorMessage == <<"An error occurred while running the pipeline.">>

ProcessedMessage(processed, total) ==
    <<"Processed ", processed, "/", total, " documents.">>

(* PipelineStatus with its defaults documents_processed = documents_total = 0 *)
PipelineStatus(pipeline_type, status, message) ==
    [pipeline_type |-> pipeline_type,
     status |-> status,
     documents_processed |-> 0,
     documents_total |-> 0,
     message |-> message]

NewRequest(settings, pipeline_type) ==
    [pc |-> "check",
     settings |-> settings,
     pipeline_type |-> pipeline_type,
     filenames |-> <<>>,
     total |-> 0,
     processed |-> 0,
     k |-> 1,
     response |-> EmptyDict,
     caught |-> FALSE,
     propagated |-> FALSE,
     exc |-> "",
     events |-> <<>>,
     started |-> <<>>,
     summaries |-> <<>>,
     index |-> <<>>]

Event(s, op, raised) == [s EXCEPT !.events = Append(@, [op |-> op, raised |-> raised])]

Respond(s, response) == [s EXCEPT !.pc = "done", !.response = response]


(* the except clause of run_pipeline; exc is the text of the exception *)
PipelineErrorLeak(s, exc) ==
    Respond([s EXCEPT !.caught = TRUE, !.exc = exc],
            PipelineStatus(s.pipeline_type, "error", PipelineErrorMessage \o <<exc>>))

PipelineErrorWithCounts(s, exc) ==
    Respond([s EXCEPT !.caught = TRUE, !.exc = exc],
            [pipeline_type |-> s.pipeline_type,
             status |-> "error",
             documents_processed |-> s.processed,
             documents_total |-> s.total,
             message |-> PipelineErrorMessage])

PipelineError(s, exc) ==
    Respond([s EXCEPT !.caught = TRUE, !.exc = exc],
            PipelineStatus(s.pipeline_type, "error", PipelineErrorMessage))

CheckConfigStepSkipOpenAI(s) ==
    IF ~s.settings.contentunderstanding_endpoint \/ ~s.settings.search_endpoint
    THEN Respond(s, PipelineStatus(s.pipeline_type, "error", NotConfiguredMessage))
    ELSE [s EXCEPT !.pc = "construct"]

CheckConfigStep(s) ==
    IF ~s.settings.contentunderstanding_endpoint \/ ~s.settings.search_endpoint
    THEN Respond(s, PipelineStatus(s.pipeline_type, "error", NotConfiguredMessage))
    ELSE IF ~s.settings.azure_openai_endpoint
    THEN Respond(s, PipelineStatus(s.pipeline_type, "error", OpenAINotConfiguredMessage))
    ELSE [s EXCEPT !.pc = "construct"]

(* which of the three constructors raises, if any *)
ConstructOutcomes == {"ok", "cu", "embedding", "search"}

ConstructStep(s, o) ==
    IF o = "cu" THEN PipelineError(Event(s, "ContentUnderstandingService", TRUE), "cu failed")
    ELSE LET s1 == Event(s, "ContentUnderstandingService", FALSE)
         IN  IF o = "embedding"
             THEN PipelineError(Event(s1, "EmbeddingService", TRUE), "embedding failed")
             ELSE LET s2 == Event(s1, "EmbeddingService", FALSE)
                  IN  IF o = "search"
                      THEN PipelineError(Event(s2, "SearchService", TRUE), "search failed")
                      ELSE [Event(s2, "SearchService", FALSE) EXCEPT !.pc = "list"]

ListOutcomes ==
    {[raises |-> TRUE, filenames |-> <<>>]}
        \cup {[raises |-> FALSE, filenames |-> c] : c \in Corpora}

ListStep(s, o) ==
    IF o.raises THEN PipelineError(Event(s, "list_documents", TRUE), "listing failed")
    ELSE LET s1 == Event(s, "list_documents", FALSE)
         IN  IF o.filenames = <<>>
             THEN Respond(s1, PipelineStatus(s.pipeline_type, "error", NoDocumentsMessage))
             ELSE [s1 EXCEPT !.filenames = o.filenames,
                             !.total = Len(o.filenames),
                             !.processed = 0,
                             !.pc = "ensure_index"]

EnsureIndexStep(s, raises) ==
    IF raises THEN PipelineError(Event(s, "ensure_index", TRUE), "index creation failed")
    ELSE [Event(s, "ensure_index", FALSE) EXCEPT
            !.pc = IF s.pipeline_type = "enhanced" THEN "ensure_analyzer" ELSE "loop"]

(* the analyzer exists, or get_analyzer raises and create_analyzer is tried *)
AnalyzerOutcomes == {"exists", "created", "create_raises"}

EnsureAnalyzerStepAlwaysCreate(s, o) ==
    LET s1 == Event(s, "get_analyzer", o # "exists")
    IN  IF o = "create_raises"
        THEN PipelineError(Event(s1, "create_analyzer", TRUE), "analyzer creation failed")
        ELSE [Event(s1, "create_analyzer", FALSE) EXCEPT !.pc = "loop"]

EnsureAnalyzerStep(s, o) ==
    IF o = "exists" THEN [Event(s, "get_analyzer", FALSE) EXCEPT !.pc = "loop"]
    ELSE LET s1 == Event(s, "get_analyzer", TRUE)
         IN  IF o = "create_raises"
             THEN PipelineError(Event(s1, "create_analyzer", TRUE), "analyzer creation failed")
             ELSE [Event(s1, "create_analyzer", FALSE) EXCEPT !.pc = "loop"]

DocIdAtReversed(s) == Stem(s.filenames[Len(s.filenames) - s.k + 1])

(* doc_id = Path(fname).stem for the fname the loop is at *)
DocIdAt(s) == Stem(s.filenames[s.k])

StartDocStep(s, raises) ==
    IF raises THEN PipelineError(Event(s, "get_document_url", TRUE), "no such blob")
    ELSE [Event(s, "get_document_url", FALSE) EXCEPT
            !.started = Append(@, DocIdAt(s)),
            !.pc = "in_doc"]

ProcessedAfterIfAllIndexed(s, summary) ==
    IF summary.indexed = summary.chunks THEN s.processed + 1 ELSE s.processed

ProcessedAfter(s, summary) == s.processed + 1

(* process_document has returned or raised into the handler's loop *)
AfterDocStep(s, p) ==
    LET s1 == [s EXCEPT !.index = @ \o p.uploads]
    IN  IF p.pc = "raised"
        THEN PipelineError(Event(s1, "process_document", TRUE), p.exc)
        ELSE [Event(s1, "process_document", FALSE) EXCEPT
                !.summaries = Append(@, p.summary),
                !.processed = ProcessedAfter(s, p.summary),
                !.k = @ + 1,
                !.pc = "loop"]

FinishStep(s) ==
    Respond(s, [pipeline_type |-> s.pipeline_type,
                status |-> "complete",
                documents_processed |-> s.processed,
                documents_total |-> s.total,
                message |-> ProcessedMessage(s.processed, s.total)])

SrvCheckConfig ==
    /\ srv.pc = "check"
    /\ srv' = CheckConfigStep(srv)
    /\ UNCHANGED <<args, frame, pd, chat, emb>>

SrvConstruct ==
    /\ srv.pc = "construct"
    /\ \E o \in ConstructOutcomes : srv' = ConstructStep(srv, o)
    /\ UNCHANGED <<args, frame, pd, chat, emb>>

SrvList ==
    /\ srv.pc = "list"
    /\ \E o \in ListOutcomes : srv' = ListStep(srv, o)
    /\ UNCHANGED <<args, frame, pd, chat, emb>>

SrvEnsureIndex ==
    /\ srv.pc = "ensure_index"
    /\ \E raises \in BOOLEAN : srv' = EnsureIndexStep(srv, raises)
    /\ UNCHANGED <<args, frame, pd, chat, emb>>

SrvEnsureAnalyzer ==
    /\ srv.pc = "ensure_analyzer"
    /\ \E o \in AnalyzerOutcomes : srv' = EnsureAnalyzerStep(srv, o)
    /\ UNCHANGED <<args, frame, pd, chat, emb>>

SrvStartDoc ==
    /\ srv.pc = "loop"
    /\ srv.k <= Len(srv.filenames)
    /\ \E raises \in BOOLEAN :
          /\ srv' = StartDocStep(srv, raises)
          /\ pd' = IF raises THEN pd
                   ELSE NewCall(srv.pipeline_type, DocIdAt(srv),
                                DefaultChunkSize, DefaultChunkOverlap)
    /\ UNCHANGED <<args, frame, chat, emb>>

SrvAfterDoc ==
    /\ srv.pc = "in_doc"
    /\ pd.pc \in {"returned", "raised"}
    /\ srv' = AfterDocStep(srv, pd)
    /\ UNCHANGED <<args, frame, pd, chat, emb>>

SrvFinish ==
    /\ srv.pc = "loop"
    /\ srv.k > Len(srv.filenames)
    /\ srv' = FinishStep(srv)
    /\ UNCHANGED <<args, frame, pd, chat, emb>>

InitServer ==
    /\ srv \in {NewRequest(st, t) : st \in SettingsSets, t \in Variants}
    /\ pd = Idle
    /\ args = <<>>
    /\ frame = <<>>
    /\ chat = Idle
    /\ emb = Idle

NextServer ==
    \/ SrvCheckConfig
    \/ SrvConstruct
    \/ SrvList
    \/ SrvEnsureIndex
    \/ SrvEnsureAnalyzer
    \/ SrvStartDoc
    \/ PdExtract
    \/ PdChunk
    \/ PdEmbed
    \/ PdIndex
    \/ SrvAfterDoc
    \/ SrvFinish

ServerSpec == InitServer /\ [][NextServer]_vars


SrvDone == srv.pc = "done"

(* the summary reports per-chunk failures: fewer chunks indexed than made *)
PartialFailure(summary) == summary.indexed < summary.chunks

EventOps(s) == [k \in 1..Len(s.events) |-> s.events[k].op]

EventCount(s, op) == Cardinality({k \in 1..Len(s.events) : s.events[k].op = op})

(* an exception reached the handler's try block: every raising call except *)
(* get_analyzer, whose exception ensure_analyzer handles itself             *)
Escaped(s) ==
    \E k \in 1..Len(s.events) : s.events[k].raised /\ s.events[k].op # "get_analyzer"

(***************************************************************************)
(* C14: when the indexing collaborator reports per-chunk failures without  *)
(* raising, process_document returns normally with indexed < chunks after  *)
(* exactly one index call and one upload; the handler counts the document  *)
(* as processed and goes on with its loop; and a run in which nothing      *)
(* raised ends 'complete' with every document counted, whatever the        *)
(* summaries said.                                                         *)
(***************************************************************************)
C14_ReturnsAfterOneIndexCall ==
    (pd.pc = "returned" /\ pd.summary.chunks > 0 /\ PartialFailure(pd.summary))
        => /\ Cardinality(CallsOf(pd, "index")) = 1
           /\ Len(pd.uploads) = 1
           /\ pd.summary.indexed =
                Cardinality({k \in 1..Len(pd.results) : pd.results[k].succeeded})

C14_CountedAsProcessed ==
    (srv.pc = "in_doc" /\ pd.pc = "returned" /\ srv'.pc # "in_doc")
        => /\ srv'.processed = srv.processed + 1
           /\ srv'.pc = "loop"
           /\ UNCHANGED pd

C14_EndsComplete ==
    (SrvDone /\ srv.total > 0 /\ ~srv.caught)
        => /\ srv.response.status = "complete"
           /\ srv.response.documents_processed = srv.total
           /\ srv.response.documents_total = srv.total
           /\ Len(srv.summaries) = srv.total
           /\ Len(srv.index) = Cardinality({k \in 1..Len(srv.summaries) :
                                              srv.summaries[k].chunks > 0})

C14_PartialFailureStillComplete ==
    /\ [](C14_ReturnsAfterOneIndexCall /\ C14_EndsComplete)
    /\ [][C14_CountedAsProcessed]_vars

C14_Witness ==
    /\ SrvDone
    /\ srv.response.status = "complete"
    /\ srv.total = 2
    /\ PartialFailure(srv.summaries[1])
    /\ ~PartialFailure(srv.summaries[2])
    /\ srv.summaries[2].chunks > 0
    /\ srv.response.documents_processed = 2

(***************************************************************************)
(* C15: with all endpoints configured, a collaborator that raises during   *)
(* the run (a constructor, list_documents, ensure_index, create_analyzer,  *)
(* get_document_url, or extraction, embedding or indexing inside           *)
(* process_document) ends the request at once: the exception does not      *)
(* leave the handler, the response is the 'error' status with exactly the  *)
(* fixed message, the raising call is the last call made and no call is    *)
(* repeated for the same document.                                         *)
(***************************************************************************)
C15_RaiseGivesGenericError ==
    /\ ~srv.propagated
    /\ (srv.pc # "idle" /\ Escaped(srv))
        => /\ SrvDone
           /\ srv.caught
           /\ srv.response = PipelineStatus(srv.pipeline_type, "error", PipelineErrorMessage)
           /\ \A k \in 1..Len(srv.response.message) : srv.response.message[k] # srv.exc
           /\ srv.events[Len(srv.events)].raised
           /\ \A op \in {"ContentUnderstandingService", "EmbeddingService", "SearchService",
                         "list_documents", "ensure_index", "get_analyzer", "create_analyzer"} :
                 EventCount(srv, op) <= 1
           /\ EventCount(srv, "process_document") <= srv.k
           /\ pd.pc = "raised" => \A op \in {"extract", "chunk", "embed", "index"} :
                                     Cardinality({k \in 1..Len(pd.calls) : pd.calls[k].op = op}) <= 1
    /\ (srv.pc # "idle" /\ srv.caught) => Escaped(srv)

C15_Witness ==
    /\ SrvDone
    /\ srv.caught
    /\ pd.pc = "raised"
    /\ CallsOf(pd, "index") # {}
    /\ srv.processed = 1
    /\ srv.response.status = "error"
    /\ srv.response.documents_processed = 0


(***************************************************************************)
(* EmbeddingService.embed (src/src/ifwebuildit/services/embedding.py).     *)
(* emb is the frame of one call: texts, the loop offset i, all_embeddings, *)
(* and as history the batches sent to the backend and whether every        *)
(* response so far carried one vector per text of its batch.               *)
(***************************************************************************)
MaxTexts == 34

batch_size == 16

TextsOfLen(n) == [k \in 1..n |-> <<"t", k>>]

NewEmbed(texts) ==
    [pc |-> "start",
     texts |-> texts,
     i |-> 0,
     all_embeddings |-> <<>>,
     batches |-> <<>>,
     faithful |-> TRUE]

(* if not texts: return [] *)
EmbedStartStep(e) ==
    IF e.texts = <<>> THEN [e EXCEPT !.pc = "returned"]
    ELSE [e EXCEPT !.pc = "loop", !.i = 0]

BatchOverlapping(e) == PySlice(e.texts, e.i, e.i + batch_size + 1)

(* batch = texts[i : i + batch_size] *)
Batch(e) == PySlice(e.texts, e.i, e.i + batch_size)

(* the backend answers with one item per input, drops the last one, or raises *)
BackendOutcomes == {"full", "short", "raises"}

ResponseData(batch, o) ==
    LET full == [k \in 1..Len(batch) |-> Vec(batch[k])]
    IN  IF o = "short" THEN SubSeq(full, 1, Len(full) - 1) ELSE full

(* one iteration of the for loop over range(0, len(texts), batch_size) *)
EmbedBatchStep(e, o) ==
    LET batch == Batch(e)
        sent == [e EXCEPT !.batches = Append(@, batch)]
    IN  IF o = "raises" THEN [sent EXCEPT !.pc = "raised"]
        ELSE [sent EXCEPT !.all_embeddings = @ \o ResponseData(batch, o),
                          !.faithful = @ /\ o = "full",
                          !.i = @ + batch_size]

EmbedReturnStep(e) == [e EXCEPT !.pc = "returned"]

EmbStart ==
    /\ emb.pc = "start"
    /\ emb' = EmbedStartStep(emb)
    /\ UNCHANGED <<args, frame, pd, srv, chat>>

EmbBatch ==
    /\ emb.pc = "loop"
    /\ emb.i < Len(emb.texts)
    /\ \E o \in BackendOutcomes : emb' = EmbedBatchStep(emb, o)
    /\ UNCHANGED <<args, frame, pd, srv, chat>>

EmbReturn ==
    /\ emb.pc = "loop"
    /\ emb.i >= Len(emb.texts)
    /\ emb' = EmbedReturnStep(emb)
    /\ UNCHANGED <<args, frame, pd, srv, chat>>

InitEmbed ==
    /\ emb \in {NewEmbed(TextsOfLen(n)) : n \in 0..MaxTexts}
    /\ args = <<>>
    /\ frame = <<>>
    /\ pd = Idle
    /\ srv = Idle
    /\ chat = Idle

NextEmbed ==
    \/ EmbStart
    \/ EmbBatch
    \/ EmbReturn

EmbedSpec == InitEmbed /\ [][NextEmbed]_vars

CeilDiv(n, d) == (n + d - 1) \div d

(***************************************************************************)
(* C20: embed on n texts sends its texts to the backend in consecutive     *)
(* batches of at most 16, batch j being texts 16(j-1)+1 .. min(16j, n);    *)
(* when it returns it has made ceil(n/16) backend calls (none for n = 0),  *)
(* and if every response carried one vector per text it returns n vectors, *)
(* vector k being the one of text k.                                       *)
(***************************************************************************)
C20_BatchesOfSixteen ==
    emb.pc # "idle" =>
        LET n == Len(emb.texts)
        IN  /\ \A j \in 1..Len(emb.batches) :
                  /\ Len(emb.batches[j]) \in 1..16
                  /\ emb.batches[j] = SubSeq(emb.texts, 16 * (j - 1) + 1, Min(16 * j, n))
            /\ Len(emb.batches) <= CeilDiv(n, 16)
            /\ emb.pc = "returned" =>
                  /\ Len(emb.batches) = CeilDiv(n, 16)
                  /\ n = 0 => emb.batches = <<>> /\ emb.all_embeddings = <<>>
                  /\ emb.faithful =>
                        /\ Len(emb.all_embeddings) = n
                        /\ \A k \in 1..n : emb.all_embeddings[k] = Vec(emb.texts[k])

C20_Witness ==
    /\ emb.pc = "returned"
    /\ emb.faithful
    /\ Len(emb.texts) = 33
    /\ Len(emb.batches) = 3
    /\ Len(emb.batches[3]) = 1
    /\ Len(emb.all_embeddings) = 33


(***************************************************************************)
(* The chat endpoints (src/src/enrichment/server.py) and ChatService.chat  *)
(* (src/src/enrichment/services/chat.py).  chat holds the app state the    *)
(* endpoints share (settings, the cached chat_service, how many were       *)
(* constructed) and the frame of the request being served; requests are    *)
(* served one after the other.                                             *)
(***************************************************************************)
MaxRequests == 2

MaxHits == 2

SnippetLen == 200

TopK == 5

Questions == {"q1", "q2"}

QueryVectors == {<<1>>, <<2>>}

(* a text of n characters in which position matters *)
Content(n) == [i \in 1..n |-> DigitChars[(i % 10) + 1]]

(* hits as SearchService.search builds them: id, content, document_id and *)
(* score always, a metadata field only when the index holds a truthy value *)
Hits ==
    {[id |-> "d1_0000", content |-> Content(3), document_id |-> "d1", score |-> 3],
     [id |-> "d1_0001", content |-> Content(200), document_id |-> "d1", score |-> 2,
      report_title |-> "T1", report_number |-> "N1", topic_category |-> "Defense",
      executive_summary |-> "S1", agencies |-> <<"DoD", "GAO", "DoD">>],
     [id |-> "d2_0000", content |-> Content(201), document_id |-> "d2", score |-> 2,
      report_title |-> "T2", report_number |-> "N1", topic_category |-> "Defense",
      agencies |-> <<"GAO", "">>],
     [id |-> "d3_0000", content |-> Content(0), document_id |-> "d3", score |-> 1,
      report_title |-> "T3", topic_category |-> "Health", agencies |-> <<"HHS">>],
     [id |-> "d4_0000", content |-> Content(250), document_id |-> "d4", score |-> 1,
      report_title |-> "T1", report_number |-> "N2", executive_summary |-> "S2"]}

ResultLists == {q \in SeqsUpTo(Hits, MaxHits) : Distinct(q)}

ChatSettingsSets == [azure_openai_endpoint : BOOLEAN, search_endpoint : BOOLEAN]

NotYetConfiguredMessage(endpoint) ==
    <<endpoint,
      " agent is not yet configured. Please set AZURE_OPENAI_ENDPOINT and SEARCH_ENDPOINT.">>

ChatErrorMessage(endpoint) ==
    <<"Sorry, an error occurred while processing your question. Please check that the ",
      endpoint, " pipeline has been run.">>

NotFoundMessage == <<"I couldn't find relevant information in the knowledge base.">>

(* ChatResponse with its defaults citations = [] and metadata = {} *)
ChatResponse(message, pipeline_type, citations) ==
    [message |-> message,
     pipeline_type |-> pipeline_type,
     citations |-> citations,
     metadata |-> EmptyDict]

NewApp(settings) ==
    [pc |-> "ready",
     settings |-> settings,
     chat_service |-> FALSE,
     constructed |-> 0,
     served |-> 0,
     endpoint |-> "",
     message |-> "",
     query_vector |-> <<>>,
     results |-> <<>>,
     citations |-> <<>>,
     context |-> <<>>,
     result |-> EmptyDict,
     exc |-> "",
     calls |-> <<>>,
     response |-> EmptyDict,
     propagated |-> FALSE]

(* a request arrives at /api/chat/<endpoint> *)
ReceiveStep(c, endpoint, message) ==
    [NewApp(c.settings) EXCEPT
        !.pc = "get_service",
        !.chat_service = c.chat_service,
        !.constructed = c.constructed,
        !.served = c.served,
        !.endpoint = endpoint,
        !.message = message]

(* the request is over: a response went out or an exception did *)
Served(c) == [c EXCEPT !.pc = "ready", !.served = @ + 1]


(* which constructor of get_chat_service raises, if any *)
ServiceOutcomes == {"ok", "SearchService", "EmbeddingService", "ChatService"}

ConstructedBefore(o) ==
    IF o = "SearchService" THEN <<>>
    ELSE IF o = "EmbeddingService" THEN <<"SearchService">>
    ELSE <<"SearchService", "EmbeddingService">>

RECURSIVE CalledAll(_, _)
CalledAll(c, ops) ==
    IF ops = <<>> THEN c ELSE CalledAll(Called(c, Head(ops), <<>>), Tail(ops))

GetServiceStepNoCache(c, o) ==
    IF ~c.settings.azure_openai_endpoint \/ ~c.settings.search_endpoint
    THEN Served([c EXCEPT !.response =
                    ChatResponse(NotYetConfiguredMessage(c.endpoint), c.endpoint, <<>>)])
    ELSE IF o # "ok"
    THEN Served([Called(CalledAll(c, ConstructedBefore(o)), o, <<>>) EXCEPT
                    !.exc = "construction failed",
                    !.propagated = TRUE])
    ELSE [CalledAll(c, <<"SearchService", "EmbeddingService", "ChatService">>) EXCEPT
             !.chat_service = TRUE,
             !.constructed = @ + 1,
             !.pc = "embed"]

(* svc = get_chat_service(), and the handler's "if svc is None" *)
GetServiceStep(c, o) ==
    IF c.chat_service THEN [c EXCEPT !.pc = "embed"]
    ELSE IF ~c.settings.azure_openai_endpoint \/ ~c.settings.search_endpoint
    THEN Served([c EXCEPT !.response =
                    ChatResponse(NotYetConfiguredMessage(c.endpoint), c.endpoint, <<>>)])
    ELSE IF o # "ok"
    THEN Served([Called(CalledAll(c, ConstructedBefore(o)), o, <<>>) EXCEPT
                    !.exc = "construction failed",
                    !.propagated = TRUE])
    ELSE [CalledAll(c, <<"SearchService", "EmbeddingService", "ChatService">>) EXCEPT
             !.chat_service = TRUE,
             !.constructed = @ + 1,
             !.pc = "embed"]

ChatEmbedOutcomes ==
    {[raises |-> TRUE, vector |-> <<>>]}
        \cup {[raises |-> FALSE, vector |-> v] : v \in QueryVectors}

(* query_vector = self.embedding.embed_single(message) *)
ChatEmbedStep(c, o) ==
    LET c1 == Called(c, "embed_single", c.message)
    IN  IF o.raises THEN [c1 EXCEPT !.pc = "failed", !.exc = "embedding failed"]
        ELSE [c1 EXCEPT !.query_vector = o.vector, !.pc = "search"]

SearchOutcomes ==
    {[raises |-> TRUE, results |-> <<>>]}
        \cup {[raises |-> FALSE, results |-> rs] : rs \in ResultLists}

NotFound == [message |-> NotFoundMessage, citations |-> <<>>]

NoResultsNever(results) == FALSE

(* if not results *)
NoResults(results) == results = <<>>

(* results = self.search.search(...), and the early return on no results *)
ChatSearchStep(c, o) ==
    LET c1 == Called(c, "search", [index_name |-> <<"index_", c.endpoint>>,
                                   query |-> c.message,
                                   vector |-> c.query_vector,
                                   top |-> TopK])
    IN  IF o.raises THEN [c1 EXCEPT !.pc = "failed", !.exc = "search failed"]
        ELSE IF NoResults(o.results)
        THEN [c1 EXCEPT !.results = o.results, !.result = NotFound, !.pc = "respond"]
        ELSE [c1 EXCEPT !.results = o.results, !.pc = "cite"]

SnippetWhole(content) == content

(* content[:200] *)
Snippet(content) == PySlice(content, 0, SnippetLen)

Citation(r) ==
    [document_id |-> Get(r, "document_id", "unknown"),
     chunk_id |-> Get(r, "id", ""),
     score |-> Get(r, "score", 0),
     snippet |-> Snippet(Get(r, "content", <<>>)),
     report_title |-> Get(r, "report_title", ""),
     report_number |-> Get(r, "report_number", ""),
     agencies |-> Get(r, "agencies", <<>>),
     topic_category |-> Get(r, "topic_category", ""),
     executive_summary |-> Get(r, "executive_summary", ""),
     key_findings |-> Get(r, "key_findings", <<>>),
     recommendations |-> Get(r, "recommendations", <<>>)]

(* the parts of one context entry: header parts, content, executive summary *)
ContextEntry(r) ==
    [header |-> <<Get(r, "document_id", "unknown")>>
                  \o (IF Get(r, "report_title", "") # "" THEN <<r.report_title>> ELSE <<>>)
                  \o (IF Get(r, "report_number", "") # "" THEN <<r.report_number>> ELSE <<>>)
                  \o (IF Get(r, "topic_category", "") # "" THEN <<r.topic_category>> ELSE <<>>)
                  \o (IF Get(r, "agencies", <<>>) # <<>> THEN <<r.agencies>> ELSE <<>>),
     content |-> Get(r, "content", <<>>),
     executive_summary |-> Get(r, "executive_summary", "")]

(* the loop over results that builds context_parts and citations *)
ChatCiteStep(c) ==
    [c EXCEPT !.citations = [k \in 1..Len(c.results) |-> Citation(c.results[k])],
              !.context = [k \in 1..Len(c.results) |-> ContextEntry(c.results[k])],
              !.pc = "complete"]


AppendIfNonEmpty(list, x) == IF x # "" THEN Append(list, x) ELSE list

(* if x and x not in list: list.append(x) *)
AppendIfNew(list, x) ==
    IF x # "" /\ \A k \in 1..Len(list) : list[k] # x THEN Append(list, x) ELSE list

RECURSIVE AppendAllNew(_, _)
AppendAllNew(list, xs) ==
    IF xs = <<>> THEN list ELSE AppendAllNew(AppendIfNew(list, Head(xs)), Tail(xs))

RECURSIVE AllAgencies(_, _)
AllAgencies(citations, acc) ==
    IF citations = <<>> THEN acc
    ELSE AllAgencies(Tail(citations), AppendAllNew(acc, Head(citations).agencies))

RECURSIVE AllTopics(_, _)
AllTopics(citations, acc) ==
    IF citations = <<>> THEN acc
    ELSE AllTopics(Tail(citations), AppendIfNew(acc, Head(citations).topic_category))

(* reports and seen_reports: one entry per new non-empty report number *)
RECURSIVE ReportsOf(_, _, _)
ReportsOf(citations, seen_reports, reports) ==
    IF citations = <<>> THEN reports
    ELSE LET c == Head(citations)
             rn == c.report_number
         IN  IF rn # "" /\ rn \notin seen_reports
             THEN ReportsOf(Tail(citations), seen_reports \cup {rn},
                            Append(reports, [title |-> c.report_title, number |-> rn]))
             ELSE ReportsOf(Tail(citations), seen_reports, reports)

HasSummary(citations) ==
    \E k \in 1..Len(citations) : citations[k].executive_summary # ""

Metadata(citations) ==
    [reports |-> ReportsOf(citations, {}, <<>>),
     agencies |-> AllAgencies(citations, <<>>),
     topics |-> AllTopics(citations, <<>>),
     has_executive_summary |-> HasSummary(citations)]

(* the completion raises, answers, or answers with no content *)
CompletionOutcomes == {"raises", "answer", "none"}

(* the completion call, "or ''", the aggregation and the return of chat *)
ChatCompleteStep(c, o) ==
    LET c1 == Called(c, "complete", [system_prompt |-> c.endpoint,
                                     context |-> c.context,
                                     question |-> c.message])
        answer == IF o = "answer" THEN <<"answer">> ELSE <<>>
    IN  IF o = "raises" THEN [c1 EXCEPT !.pc = "failed", !.exc = "completion failed"]
        ELSE [c1 EXCEPT !.result = [message |-> answer,
                                    citations |-> c.citations,
                                    metadata |-> Metadata(c.citations)],
                        !.pc = "respond"]

(* the handler's except clause, or its final return *)
ChatRespondStep(c) ==
    IF c.pc = "failed"
    THEN Served([c EXCEPT !.response =
                    ChatResponse(ChatErrorMessage(c.endpoint), c.endpoint, <<>>)])
    ELSE Served([c EXCEPT !.response =
                    ChatResponse(c.result.message, c.endpoint,
                                 Get(c.result, "citations", <<>>))])

ChatReceive ==
    /\ chat.pc = "ready"
    /\ chat.served < MaxRequests
    /\ \E endpoint \in Variants, message \in Questions :
          chat' = ReceiveStep(chat, endpoint, message)
    /\ UNCHANGED <<args, frame, pd, srv, emb>>

ChatGetService ==
    /\ chat.pc = "get_service"
    /\ \E o \in ServiceOutcomes : chat' = GetServiceStep(chat, o)
    /\ UNCHANGED <<args, frame, pd, srv, emb>>

ChatEmbed ==
    /\ chat.pc = "embed"
    /\ \E o \in ChatEmbedOutcomes : chat' = ChatEmbedStep(chat, o)
    /\ UNCHANGED <<args, frame, pd, srv, emb>>

ChatSearch ==
    /\ chat.pc = "search"
    /\ \E o \in SearchOutcomes : chat' = ChatSearchStep(chat, o)
    /\ UNCHANGED <<args, frame, pd, srv, emb>>

ChatCite ==
    /\ chat.pc = "cite"
    /\ chat' = ChatCiteStep(chat)
    /\ UNCHANGED <<args, frame, pd, srv, emb>>

ChatComplete ==
    /\ chat.pc = "complete"
    /\ \E o \in CompletionOutcomes : chat' = ChatCompleteStep(chat, o)
    /\ UNCHANGED <<args, frame, pd, srv, emb>>

ChatRespond ==
    /\ chat.pc \in {"respond", "failed"}
    /\ chat' = ChatRespondStep(chat)
    /\ UNCHANGED <<args, frame, pd, srv, emb>>

InitChat ==
    /\ chat \in {NewApp(st) : st \in ChatSettingsSets}
    /\ args = <<>>
    /\ frame = <<>>
    /\ pd = Idle
    /\ srv = Idle
    /\ emb = Idle

NextChat ==
    \/ ChatReceive
    \/ ChatGetService
    \/ ChatEmbed
    \/ ChatSearch
    \/ ChatCite
    \/ ChatComplete
    \/ ChatRespond

ChatSpec == InitChat /\ [][NextChat]_vars


ChatActive == chat.pc # "idle"

ChatConfigured == chat.settings.azure_openai_endpoint /\ chat.settings.search_endpoint

(* the request in the frame is over *)
ChatServed == chat.pc = "ready" /\ chat.served > 0

(* chat returned a dictionary with citations built from results *)
ChatAnswered == "metadata" \in DOMAIN chat.result

(***************************************************************************)
(* C16: every chat request served with both endpoints configured ends in a *)
(* ChatResponse carrying the endpoint's pipeline type, no exception leaves *)
(* the handler, and when something raised (constructing the chat service,  *)
(* embedding, searching or completion) the response is the fixed error     *)
(* message with no citations.                                              *)
(***************************************************************************)
C16_ChatErrorsSanitised ==
    (ChatActive /\ ChatConfigured /\ ChatServed)
        => /\ ~chat.propagated
           /\ "pipeline_type" \in DOMAIN chat.response
           /\ chat.response.pipeline_type = chat.endpoint
           /\ chat.exc # "" =>
                 /\ chat.response.message = ChatErrorMessage(chat.endpoint)
                 /\ chat.response.citations = <<>>

(***************************************************************************)
(* C17: chat embeds the question and then searches with the vector the     *)
(* embedding returned and the question as query; once chat has a result    *)
(* both calls were made exactly once; and when the search returned no      *)
(* results the result is the not-found message with no citations and the   *)
(* completion is never called for that question.                           *)
(***************************************************************************)
C17_EmbedThenSearch ==
    ChatActive =>
        /\ \A k \in CallsOf(chat, "search") :
              /\ k >= 2
              /\ chat.calls[k - 1].op = "embed_single"
              /\ chat.calls[k - 1].input = chat.message
              /\ chat.calls[k].input.query = chat.message
              /\ chat.calls[k].input.vector = chat.query_vector
              /\ chat.query_vector \in QueryVectors
        /\ \A k \in CallsOf(chat, "complete") : CallsOf(chat, "search") = {k - 1}
        /\ chat.result # EmptyDict =>
              /\ Cardinality(CallsOf(chat, "embed_single")) = 1
              /\ Cardinality(CallsOf(chat, "search")) = 1
        /\ (CallsOf(chat, "search") # {} /\ chat.exc = "" /\ chat.results = <<>>) =>
              /\ chat.result = NotFound
              /\ CallsOf(chat, "complete") = {}
              /\ ChatServed => chat.response =
                                 ChatResponse(NotFoundMessage, chat.endpoint, <<>>)

C17_Witness ==
    /\ ChatServed
    /\ chat.served = 2
    /\ OpsOf(chat) = <<"embed_single", "search">>
    /\ chat.result = NotFound
    /\ chat.response.message = NotFoundMessage

(***************************************************************************)
(* C18: when the search returned n >= 1 results and chat returned, it      *)
(* returned n citations in result order, citation i carrying result i's    *)
(* document id, chunk id and score, and as snippet the first 200           *)
(* characters of result i's content (all of it when it is shorter).        *)
(***************************************************************************)
C18_CitationPerResult ==
    (ChatActive /\ ChatAnswered) =>
        /\ Len(chat.results) >= 1
        /\ Len(chat.result.citations) = Len(chat.results)
        /\ \A i \in 1..Len(chat.results) :
              LET r == chat.results[i]
                  c == chat.result.citations[i]
              IN  /\ c.document_id = r.document_id
                  /\ c.chunk_id = r.id
                  /\ c.score = r.score
                  /\ c.snippet = IF Len(r.content) <= 200 THEN r.content
                                 ELSE SubSeq(r.content, 1, 200)

C18_Witness ==
    /\ ChatServed
    /\ ChatAnswered
    /\ Len(chat.response.citations) = 2
    /\ Len(chat.results[1].content) = 250
    /\ Len(chat.response.citations[1].snippet) = 200
    /\ Len(chat.results[2].content) = 3
    /\ chat.response.citations[2].snippet = chat.results[2].content


NoDuplicates(q) == \A i, j \in 1..Len(q) : q[i] = q[j] => i = j

Elements(q) == {q[k] : k \in 1..Len(q)}

(* the position at which x first occurs in q *)
FirstIndex(q, x) == CHOOSE i \in 1..Len(q) : q[i] = x /\ \A j \in 1..(i - 1) : q[j] # x

(* list holds each non-empty value of q once, in order of first occurrence *)
IsFirstOccurrenceList(list, q) ==
    /\ NoDuplicates(list)
    /\ Elements(list) = Elements(q) \ {""}
    /\ \A i, j \in 1..Len(list) :
          i < j => FirstIndex(q, list[i]) < FirstIndex(q, list[j])

RECURSIVE AgenciesInOrder(_)
AgenciesInOrder(citations) ==
    IF citations = <<>> THEN <<>>
    ELSE Head(citations).agencies \o AgenciesInOrder(Tail(citations))

TopicsInOrder(citations) == [k \in 1..Len(citations) |-> citations[k].topic_category]

(***************************************************************************)
(* C19: on the enhanced endpoint the metadata chat returns aggregates its  *)
(* citations: agencies and topics hold each non-empty value once in order  *)
(* of first occurrence, the report list has no duplicate (title, number)   *)
(* entry, every entry comes from a citation with a non-empty number and    *)
(* every such number is listed, and has_executive_summary is true exactly  *)
(* when some citation carries a non-empty executive summary.               *)
(***************************************************************************)
C19_MetadataAggregation ==
    (ChatActive /\ ChatAnswered /\ chat.endpoint = "enhanced") =>
        LET cs == chat.result.citations
            md == chat.result.metadata
        IN  /\ IsFirstOccurrenceList(md.agencies, AgenciesInOrder(cs))
            /\ IsFirstOccurrenceList(md.topics, TopicsInOrder(cs))
            /\ NoDuplicates(md.reports)
            /\ \A k \in 1..Len(md.reports) :
                  /\ md.reports[k].number # ""
                  /\ \E i \in 1..Len(cs) :
                        /\ cs[i].report_number = md.reports[k].number
                        /\ cs[i].report_title = md.reports[k].title
            /\ \A i \in 1..Len(cs) :
                  cs[i].report_number # "" =>
                     \E k \in 1..Len(md.reports) : md.reports[k].number = cs[i].report_number
            /\ md.has_executive_summary <=>
                  \E i \in 1..Len(cs) : cs[i].executive_summary # ""

C19_Witness ==
    /\ ChatAnswered
    /\ chat.endpoint = "enhanced"
    /\ Len(chat.result.citations) = 2
    /\ chat.result.citations[1].agencies = <<"DoD", "GAO", "DoD">>
    /\ chat.result.citations[2].agencies = <<"GAO", "">>
    /\ chat.result.metadata.agencies = <<"DoD", "GAO">>
    /\ chat.result.metadata.topics = <<"Defense">>
    /\ Len(chat.result.metadata.reports) = 1
    /\ chat.result.metadata.has_executive_summary


(* name is a field of some content of the extraction result *)
FieldNames(contents) == UNION {DOMAIN contents[i].fields : i \in 1..Len(contents)}

(* the value the extraction result gives name: that of the last content with it *)
ExtractedValue(contents, name) ==
    LET last == CHOOSE i \in 1..Len(contents) :
                    /\ name \in DOMAIN contents[i].fields
                    /\ \A j \in (i + 1)..Len(contents) : name \notin DOMAIN contents[j].fields
    IN  contents[last].fields[name].value

(***************************************************************************)
(* C21: in the enhanced pipeline the metadata is the field-to-value        *)
(* mapping of the extraction result; every batch uploaded holds one record *)
(* per chunk in chunk order, each with the document's report title, report *)
(* number, topic category, executive summary and agencies (the empty       *)
(* default for a field the extraction did not give); and the summary       *)
(* returned carries that same metadata mapping.                            *)
(***************************************************************************)
C21_MetadataOnEveryRecord ==
    (PdActive /\ pd.variant = "enhanced" /\ pd.extracted) =>
        /\ DOMAIN pd.metadata = FieldNames(pd.contents)
        /\ \A name \in DOMAIN pd.metadata :
              pd.metadata[name] = ExtractedValue(pd.contents, name)
        /\ \A u \in 1..Len(pd.uploads) :
              /\ Len(pd.uploads[u]) = Len(pd.chunks)
              /\ \A k \in 1..Len(pd.chunks) :
                    LET rec == pd.uploads[u][k]
                    IN  /\ rec.id = pd.chunks[k].id
                        /\ rec.content = pd.chunks[k].content
                        /\ rec.chunk_index = k - 1
                        /\ rec.report_title = Get(pd.metadata, "reportTitle", "")
                        /\ rec.report_number = Get(pd.metadata, "reportNumber", "")
                        /\ rec.topic_category = Get(pd.metadata, "topicCategory", "")
                        /\ rec.executive_summary = Get(pd.metadata, "executiveSummary", "")
                        /\ rec.agencies = Get(pd.metadata, "agencies", <<>>)
        /\ pd.pc = "returned" => pd.summary.metadata = pd.metadata

C21_Witness ==
    /\ pd.variant = "enhanced"
    /\ pd.pc = "returned"
    /\ Len(pd.contents) = 2
    /\ pd.metadata = [reportTitle |-> "T2", reportNumber |-> "N1", agencies |-> <<"DoD">>,
                      topicCategory |-> "Health", executiveSummary |-> "S2"]
    /\ Len(pd.uploads) = 1
    /\ Len(pd.uploads[1]) >= 2
    /\ pd.uploads[1][2].report_title = "T2"
    /\ pd.uploads[1][2].agencies = <<"DoD">>

(***************************************************************************)
(* C22: every summary process_document returns, baseline or enhanced, on   *)
(* the empty-text path or the normal path, has the keys document_id,       *)
(* chunks, indexed and text_length.                                        *)
(***************************************************************************)
C22_SummaryKeys ==
    (PdActive /\ pd.pc = "returned") =>
        {"document_id", "chunks", "indexed", "text_length"} \subseteq DOMAIN pd.summary

(***************************************************************************)
(* C30: the index step uploads at most one batch, one record per chunk,    *)
(* record k pairing chunk k with embedding k; when the number of           *)
(* embeddings differs from the number of chunks the call raises, nothing   *)
(* has been uploaded, and process_document ends raised without a summary.  *)
(***************************************************************************)
C30_PairedOrNothing ==
    PdActive =>
        /\ Len(pd.uploads) <= 1
        /\ \A u \in 1..Len(pd.uploads) :
              /\ Len(pd.uploads[u]) = Len(pd.chunks)
              /\ \A k \in 1..Len(pd.chunks) :
                    /\ pd.uploads[u][k].id = pd.chunks[k].id
                    /\ pd.uploads[u][k].content = pd.chunks[k].content
                    /\ pd.uploads[u][k].content_vector = pd.embeddings[k]
                    /\ pd.uploads[u][k].content_vector = Vec(pd.chunks[k].content)
        /\ (CallsOf(pd, "index") # {} /\ Len(pd.embeddings) # Len(pd.chunks)) =>
              /\ pd.pc = "raised"
              /\ pd.uploads = <<>>
              /\ pd.summary = EmptyDict

C30_Witness ==
    /\ pd.pc = "raised"
    /\ CallsOf(pd, "index") # {}
    /\ Len(pd.chunks) = 2
    /\ Len(pd.embeddings) = 3
    /\ pd.uploads = <<>>


(* the last k characters of s; nothing for k <= 0 *)
Trailing(s, k) == IF k <= 0 THEN <<>> ELSE SubSeq(s, Len(s) - k + 1, Len(s))

(* this step of call c finalized the accumulator because the next paragraph *)
(* would not fit                                                            *)
FinalizedFull(c) ==
    /\ frame[c].pc = "for"
    /\ frame'[c].pc = "fit"
    /\ Len(frame'[c].chunks) = Len(frame[c].chunks) + 1

SeededFromContent(c) ==
    LET content == frame'[c].chunks[Len(frame'[c].chunks)].content
        overlap == frame[c].chunk_overlap
    IN  frame'[c].current =
            IF Len(content) < overlap THEN <<>> ELSE Trailing(content, overlap)

(***************************************************************************)
(* C25: when a step finalizes the accumulator because the next paragraph   *)
(* plus one separator would exceed chunk_size, the accumulator after the   *)
(* step is the trailing chunk_overlap characters (the overlap in effect    *)
(* after clamping) of the content of the chunk just finalized, or empty    *)
(* when that content is shorter than chunk_overlap.                        *)
(***************************************************************************)
C25_OverlapSeed ==
    [][\A c \in Calls :
          (args[c].chunk_size >= 1 /\ FinalizedFull(c)) => SeededFromContent(c)]_vars


(* texts of one or two paragraphs for the oversized-paragraph path: the *)
(* second paragraph can be longer than chunk_size while the first still *)
(* leaves an overlap in the accumulator                                 *)
MaxParaLen == 4

ParaStrings == UNION {[1..n -> {"a", SP}] : n \in 1..MaxParaLen}

WindowTexts == ParaStrings \cup {p \o separator \o q : p, q \in ParaStrings}

WindowArgSets ==
    [text : WindowTexts, document_id : {<<"d", "1">>},
     chunk_size : 1..MaxChunkSize, chunk_overlap : Overlaps]

InitWindows ==
    /\ args \in [{1} -> WindowArgSets]
    /\ frame = [c \in {1} |-> NewFrame(args[c])]
    /\ OthersIdle

WindowSpec == InitWindows /\ [][Next]_vars

(* the configurations the contract allows: a positive size, an overlap >= 0 *)
ValidConfig(c) == args[c].chunk_size >= 1 /\ args[c].chunk_overlap >= 0

WindowChunks(c, p) == {k \in ChunkIxs(c) : IsWindowOf(c, k, p)}

(* paragraph p is longer than chunk_size and the loop has gone past it *)
WindowsDone(c, p) ==
    /\ frame[c].pc \in {"for", "fit", "window", "done"}
    /\ frame[c].para_idx > p
    /\ Len(frame[c].paragraphs[p]) > args[c].chunk_size

(* one chunk per offset 0, s, 2s, ... below the paragraph length, in order, *)
(* chunk j being the trimmed slice para[j*s : j*s + chunk_size]             *)
WindowLayout(c, p) ==
    LET para == frame[c].paragraphs[p]
        size == args[c].chunk_size
        s == size - frame[c].chunk_overlap
        n == CeilDiv(Len(para), s)
    IN  /\ s >= 1
        /\ \E k0 \in ChunkIxs(c) :
              /\ WindowChunks(c, p) = k0..(k0 + n - 1)
              /\ \A j \in 0..(n - 1) :
                    /\ frame[c].spans[k0 + j].lo = j * s
                    /\ frame[c].spans[k0 + j].hi = Min(j * s + size, Len(para))
                    /\ frame[c].chunks[k0 + j].content = Strip(WindowText(c, k0 + j))

(* windows k and k + 1 belong to the same paragraph *)
ConsecutiveWindows(c, k) ==
    /\ k + 1 \in ChunkIxs(c)
    /\ frame[c].spans[k].kind = "win"
    /\ IsWindowOf(c, k + 1, frame[c].spans[k].para)

(* the number of characters windows k and k + 1 have in common *)
Shared(c, k) == frame[c].spans[k].hi - frame[c].spans[k + 1].lo

FullWindow(c, k) == frame[c].spans[k].hi - frame[c].spans[k].lo = args[c].chunk_size

(* the accumulator is empty during the window loop and when it is left *)
EmptyAfterWindows(c) ==
    /\ frame[c].pc = "window" => frame[c].current = <<>>
    /\ (/\ frame[c].pc = "for"
        /\ frame[c].para_idx > 1
        /\ Len(frame[c].paragraphs[frame[c].para_idx - 1]) > args[c].chunk_size)
        => frame[c].current = <<>>

(* entering the window loop emits a non-empty accumulator as its own chunk *)
(* and clears it                                                           *)
FlushBeforeWindows(c) ==
    (/\ frame[c].pc = "fit"
     /\ Oversized(args[c], frame[c])
     /\ frame'[c] # frame[c])
    => /\ frame'[c].current = <<>>
       /\ IF frame[c].current # <<>>
          THEN /\ Len(frame'[c].chunks) = Len(frame[c].chunks) + 1
               /\ frame'[c].chunks[Len(frame'[c].chunks)].content = Strip(frame[c].current)
               /\ frame'[c].spans[Len(frame'[c].chunks)].kind = "acc"
          ELSE frame'[c].chunks = frame[c].chunks

C26_Layout ==
    \A c \in Calls :
        ValidConfig(c) =>
            /\ EmptyAfterWindows(c)
            /\ \A p \in ParaIxs(c) : WindowsDone(c, p) => WindowLayout(c, p)

(***************************************************************************)
(* C26 as stated (chunk_size >= 1, chunk_overlap >= 0, the overlap as      *)
(* clamped): for a paragraph longer than chunk_size the accumulator is     *)
(* flushed and cleared, one chunk is emitted per window at offsets 0, s,   *)
(* 2s, ... with s = chunk_size - chunk_overlap, every two consecutive      *)
(* windows share chunk_overlap characters, and the accumulator is empty    *)
(* afterwards.                                                             *)
(***************************************************************************)
C26_WindowsShareOverlap ==
    /\ [](C26_Layout /\ \A c \in Calls :
             ValidConfig(c) => \A k \in ChunkIxs(c) :
                ConsecutiveWindows(c, k) => Shared(c, k) = frame[c].chunk_overlap)
    /\ [][\A c \in Calls : ValidConfig(c) => FlushBeforeWindows(c)]_vars

(***************************************************************************)
(* C26 amended: as above, but two consecutive windows share chunk_overlap  *)
(* characters when the earlier one is a full chunk_size characters; when   *)
(* the earlier one is cut short by the end of the paragraph the later one  *)
(* lies wholly inside it.                                                  *)
(***************************************************************************)
C26_WindowsShareOverlapWhenFull ==
    /\ [](C26_Layout /\ \A c \in Calls :
             ValidConfig(c) => \A k \in ChunkIxs(c) :
                ConsecutiveWindows(c, k) =>
                   IF FullWindow(c, k)
                   THEN Shared(c, k) = frame[c].chunk_overlap
                   ELSE /\ frame[c].spans[k + 1].hi = frame[c].spans[k].hi
                        /\ Shared(c, k) < frame[c].chunk_overlap)
    /\ [][\A c \in Calls : ValidConfig(c) => FlushBeforeWindows(c)]_vars

C26_Witness ==
    \E c \in Calls :
        /\ Returned(c)
        /\ ValidConfig(c)
        /\ \E k \in ChunkIxs(c) :
              /\ ConsecutiveWindows(c, k)
              /\ FullWindow(c, k)
              /\ Shared(c, k) = 2
        /\ \E k \in ChunkIxs(c) :
              /\ ConsecutiveWindows(c, k)
              /\ ~FullWindow(c, k)
              /\ Shared(c, k) = 1
        /\ \E k \in ChunkIxs(c) :
              /\ k > 1
              /\ frame[c].spans[k - 1].kind = "acc"
              /\ frame[c].spans[k].kind = "acc"
              /\ frame[c].spans[k].paras = {}
              /\ k + 1 \in ChunkIxs(c)
              /\ frame[c].spans[k + 1].kind = "win"


SrvActive == srv.pc # "idle"

SrvConfigured ==
    /\ srv.settings.contentunderstanding_endpoint
    /\ srv.settings.search_endpoint
    /\ srv.settings.azure_openai_endpoint

(* the positions in the handler's call log at which op was called *)
EventsOf(s, op) == {k \in 1..Len(s.events) : s.events[k].op = op}

LastEvent(s) == s.events[Len(s.events)]

(***************************************************************************)
(* C23: ensure_analyzer calls get_analyzer once; create_analyzer is called *)
(* exactly when that lookup raised, at most once and right after it; the   *)
(* baseline pipeline calls neither.                                        *)
(***************************************************************************)
C23_AnalyzerCreatedOnlyIfMissing ==
    SrvActive =>
        /\ Cardinality(EventsOf(srv, "get_analyzer")) <= 1
        /\ Cardinality(EventsOf(srv, "create_analyzer")) <= 1
        /\ srv.pipeline_type = "baseline" =>
              EventsOf(srv, "get_analyzer") \cup EventsOf(srv, "create_analyzer") = {}
        /\ (srv.pipeline_type = "enhanced" /\ srv.pc = "loop") =>
              Cardinality(EventsOf(srv, "get_analyzer")) = 1
        /\ \A k \in EventsOf(srv, "get_analyzer") :
              (EventsOf(srv, "create_analyzer") = {k + 1}) <=> srv.events[k].raised
        /\ \A k \in EventsOf(srv, "get_analyzer") :
              ~srv.events[k].raised => EventsOf(srv, "create_analyzer") = {}

C23_Witness ==
    /\ SrvDone
    /\ srv.response.status = "complete"
    /\ \E k \in EventsOf(srv, "get_analyzer") :
          /\ srv.events[k].raised
          /\ srv.events[k + 1] = [op |-> "create_analyzer", raised |-> FALSE]
    /\ EventsOf(srv, "process_document") # {}

(***************************************************************************)
(* C24: when the content-understanding, search or OpenAI endpoint is not   *)
(* configured the request ends with status 'error' and no service was      *)
(* constructed, nothing listed, no document processed; when the listing    *)
(* comes back empty it ends with status 'error' and the no-documents       *)
(* message, and no index, analyzer or document call is made.               *)
(***************************************************************************)
C24_NothingRunsUnconfiguredOrEmpty ==
    SrvActive =>
        /\ ~SrvConfigured =>
              /\ srv.events = <<>>
              /\ srv.started = <<>>
              /\ srv.index = <<>>
              /\ pd = Idle
              /\ srv.pc \in {"check", "done"}
              /\ SrvDone =>
                    /\ srv.response.status = "error"
                    /\ srv.response.message \in {NotConfiguredMessage, OpenAINotConfiguredMessage}
                    /\ srv.response.documents_processed = 0
        /\ (SrvDone /\ srv.events # <<>>
            /\ LastEvent(srv) = [op |-> "list_documents", raised |-> FALSE]) =>
              /\ srv.filenames = <<>>
              /\ srv.response.status = "error"
              /\ srv.response.message = NoDocumentsMessage
              /\ srv.started = <<>>
              /\ srv.index = <<>>
              /\ pd = Idle
              /\ EventsOf(srv, "ensure_index") = {}
        /\ (srv.pc \notin {"check", "construct", "list"} /\ srv.filenames = <<>>) => SrvDone

C24_Witness ==
    /\ SrvDone
    /\ srv.settings.contentunderstanding_endpoint
    /\ srv.settings.search_endpoint
    /\ ~srv.settings.azure_openai_endpoint
    /\ srv.response.status = "error"
    /\ srv.response.message = OpenAINotConfiguredMessage
    /\ srv.events = <<>>

(***************************************************************************)
(* C27: in a run that ends 'complete', ensure_index was called once (and   *)
(* for the enhanced pipeline get_analyzer once) before the first document; *)
(* process_document was called once per listed file, in listing order,     *)
(* with the file's stem as document id, each call starting after the one   *)
(* before has returned; and the response has documents_processed =         *)
(* documents_total = the number of files listed.                           *)
(***************************************************************************)
C27_SuccessfulRunOrder ==
    SrvActive =>
        /\ Len(srv.started) \in {Cardinality(EventsOf(srv, "process_document")),
                                 Cardinality(EventsOf(srv, "process_document")) + 1}
        /\ srv.pc = "in_doc" =>
              Len(srv.started) = Cardinality(EventsOf(srv, "process_document")) + 1
        /\ (SrvDone /\ srv.response.status = "complete") =>
              LET n == Len(srv.filenames)
                  first == CHOOSE k \in EventsOf(srv, "get_document_url") :
                              \A j \in EventsOf(srv, "get_document_url") : k <= j
              IN  /\ n >= 1
                  /\ Cardinality(EventsOf(srv, "ensure_index")) = 1
                  /\ \A k \in EventsOf(srv, "ensure_index") : k < first
                  /\ IF srv.pipeline_type = "enhanced"
                     THEN /\ Cardinality(EventsOf(srv, "get_analyzer")) = 1
                          /\ \A k \in EventsOf(srv, "get_analyzer")
                                        \cup EventsOf(srv, "create_analyzer") : k < first
                     ELSE EventsOf(srv, "get_analyzer") = {}
                  /\ srv.started = [k \in 1..n |-> Stem(srv.filenames[k])]
                  /\ Cardinality(EventsOf(srv, "process_document")) = n
                  /\ Len(srv.summaries) = n
                  /\ \A k \in 1..n : srv.summaries[k].document_id = Stem(srv.filenames[k])
                  /\ srv.response.documents_processed = n
                  /\ srv.response.documents_total = n

C27_Witness ==
    /\ SrvDone
    /\ srv.response.status = "complete"
    /\ srv.pipeline_type = "enhanced"
    /\ srv.filenames = <<<<"d", "2", ".", "p", "d", "f">>, <<"d", "3">>>>
    /\ srv.started = <<<<"d", "2">>, <<"d", "3">>>>
    /\ srv.response.documents_processed = 2

(***************************************************************************)
(* C28: when process_document raises for the k-th document the run ends:   *)
(* only the first k documents were started, the k-1 before it are counted  *)
(* in the handler's local, every batch they uploaded is still in the index *)
(* (the handler never deletes), and the error response reports             *)
(* documents_processed = 0 and documents_total = 0.                        *)
(***************************************************************************)
C28_RaiseStopsRun ==
    (SrvActive /\ srv.events # <<>>
     /\ LastEvent(srv) = [op |-> "process_document", raised |-> TRUE]) =>
        /\ SrvDone
        /\ Len(srv.started) = srv.k
        /\ srv.started = [j \in 1..srv.k |-> Stem(srv.filenames[j])]
        /\ srv.processed = srv.k - 1
        /\ Len(srv.summaries) = srv.k - 1
        /\ \A j \in 1..(srv.k - 1) :
              srv.summaries[j].chunks > 0 =>
                 \E b \in 1..Len(srv.index) :
                    /\ Len(srv.index[b]) = srv.summaries[j].chunks
                    /\ \A r \in 1..Len(srv.index[b]) :
                          srv.index[b][r].document_id = Stem(srv.filenames[j])
        /\ srv.response.status = "error"
        /\ srv.response.documents_processed = 0
        /\ srv.response.documents_total = 0

C28_Witness ==
    /\ SrvDone
    /\ srv.events # <<>>
    /\ LastEvent(srv) = [op |-> "process_document", raised |-> TRUE]
    /\ srv.k = 2
    /\ srv.total = 2
    /\ Len(srv.summaries) = 1
    /\ srv.summaries[1].indexed = 1
    /\ Len(srv.index) = 1
    /\ srv.response.documents_processed = 0
    /\ srv.response.documents_total = 0


Constructors == {"SearchService", "EmbeddingService", "ChatService"}

(***************************************************************************)
(* C29: over any sequence of baseline and enhanced chat requests to one    *)
(* app a ChatService is constructed at most once, stays cached, and a      *)
(* request that finds it cached calls no constructor whichever endpoint it *)
(* came to; while the OpenAI or the search endpoint is not configured      *)
(* nothing is constructed or cached, no collaborator is called and every   *)
(* request is answered with the endpoint's 'not yet configured' message.   *)
(***************************************************************************)
C29_OneSharedChatService ==
    [][/\ chat'.constructed <= 1
       /\ chat'.chat_service <=> (chat'.constructed = 1)
       /\ chat.chat_service => chat'.chat_service
       /\ (chat.pc = "get_service" /\ chat.chat_service) =>
             /\ chat'.pc = "embed"
             /\ chat'.calls = <<>>
       /\ ~ChatConfigured =>
             /\ chat'.constructed = 0
             /\ ~chat'.chat_service
             /\ chat'.calls = <<>>
             /\ ~chat'.propagated
             /\ chat'.pc \in {"ready", "get_service"}
             /\ (chat'.pc = "ready" /\ chat'.served > 0) =>
                   chat'.response =
                      ChatResponse(NotYetConfiguredMessage(chat'.endpoint), chat'.endpoint, <<>>)
      ]_vars

C29_Witness ==
    /\ ChatServed
    /\ chat.served = 2
    /\ chat.endpoint = "enhanced"
    /\ chat.constructed = 1
    /\ chat.chat_service
    /\ chat.calls # <<>>
    /\ \A k \in 1..Len(chat.calls) : chat.calls[k].op \notin Constructors

====
